---- MODULE Spec2Model ----
(***************************************************************************)
(* Invoice extraction-and-reconciliation pipeline of the OCR service.      *)
(*                                                                         *)
(* One document-processing request is followed from the raw OCR text to    *)
(* the InvoiceData returned by an extraction entry point (basic,           *)
(* ML-enhanced, LLM-enhanced) and on to the InvoiceDTO built by            *)
(* InvoiceService.create_invoice_from_extracted_data.                      *)
(*                                                                         *)
(* The OCR text is represented by what the regular expressions of the      *)
(* extractors capture in it (one captured value per keyword line) and by   *)
(* its sequence of words for the lookups of store names in the text.       *)
(* Amounts are exact rationals counted in cents (0.01 currency units):     *)
(* [n, d] is n/d cents, and d = 0 is Python's None.                        *)
(* Arithmetic is exact: the rounding of Python floats is not represented.  *)
(* Scores are counted in hundredths.                                       *)
(***************************************************************************)
EXTENDS Integers, Sequences, FiniteSets, TLC

VARIABLES
    text,    \* the OCR text of the request, by what the patterns capture in it
    store,   \* the reference store: companies, suppliers, historical invoices
    today,   \* date.today(), as a day number
    path,    \* the extraction entry point the request went through
    pc,      \* "start", "returned", "raised" or "assembled"
    data,    \* the InvoiceData returned by the entry point
    dbData,  \* the result of the database path of the assembler
    raised,  \* the exception that reached the caller, "None" when there is none
    dto,     \* the InvoiceDTO built by the assembler
    attempts,     \* the persistence calls made so far, with their arguments
    pending,      \* the rows added to the session and not committed
    committed,    \* the rows committed in the database
    outcome,      \* "returned" or "raised": how the last persistence call ended
    resolved,     \* the last resolution operation: its name, candidate and result
    rpc,          \* by request: "idle", "saving" (awaiting the upload), "done",
                  \* "failed" (an error after the upload) or "rejected"
    rtext,        \* by request: its OCR text
    faults,       \* by request: the queries of the request the database rejects
    sessionTx,    \* the transaction of ml_extractor.db: "none", "open", "aborted"
    sessionUsers, \* the requests that ran a query on ml_extractor.db
    result,       \* by request: the InvoiceDTO of the response
    tempFiles,    \* the requests whose temporary file is on the disk
    doc,          \* a raw text given to a section scan, as its lines
    scan          \* the last section scan: its name, sections and names

requestVars == <<text, store, today, path, pc, data, dbData, raised, dto>>
persistVars == <<attempts, pending, committed, outcome, resolved>>
routeVars == <<rpc, rtext, faults, sessionTx, sessionUsers, result, tempFiles>>
scanVars == <<doc, scan>>

vars == <<text, store, today, path, pc, data, dbData, raised, dto,
          attempts, pending, committed, outcome, resolved,
          rpc, rtext, faults, sessionTx, sessionUsers, result, tempFiles,
          doc, scan>>

-----------------------------------------------------------------------------
(* Bounds of the model *)

\* largest amount, in cents, of an amount line of the text
MaxAmt == 6
\* largest number of historical invoices returned by the history query
MaxHist == 2
\* largest number of line items matched in the text
MaxItems == 2
\* largest number of dates written in a text
MaxDates == 2
\* largest number of persistence calls
MaxInvoices == 3

-----------------------------------------------------------------------------
(* Amounts: Optional[float] / Optional[Decimal] *)

NoAmt == [n |-> 0, d |-> 0]

Abs(x) == IF x < 0 THEN 0 - x ELSE x

RECURSIVE GCD(_, _)
GCD(a, b) == IF b = 0 THEN a ELSE GCD(b, a % b)

\* the rational n/d in lowest terms, d > 0
Rat(n, d) ==
    LET g == GCD(Abs(n), d)
    IN  IF g = 0 THEN [n |-> 0, d |-> 1] ELSE [n |-> n \div g, d |-> d \div g]

Cents(c) == [n |-> c, d |-> 1]

\* `x is not None`, `key in amounts`
Present(a) == a.d # 0

\* Python truthiness of an optional number: None and 0 are both falsy
Truthy(a) == a.d # 0 /\ a.n # 0

Plus(a, b) == Rat(a.n * b.d + b.n * a.d, a.d * b.d)

Minus(a, b) == Rat(a.n * b.d - b.n * a.d, a.d * b.d)

Times(a, b) == Rat(a.n * b.n, a.d * b.d)

\* a <= b for two present amounts
Leq(a, b) == a.n * b.d <= b.n * a.d

\* the tolerance of the reconciliation: 0.01 currency units = 1 cent
Tolerance == 1

\* abs(a - b) > 0.01
DiffersBeyondTolerance(a, b) ==
    LET diff == Minus(a, b) IN Abs(diff.n) > Tolerance * diff.d

\* abs(a - b) < 0.01
CloserThanTolerance(a, b) ==
    LET diff == Minus(a, b) IN Abs(diff.n) < Tolerance * diff.d

NoTotals == [obj |-> FALSE, sub |-> NoAmt, vat |-> NoAmt, incl |-> NoAmt, due |-> NoAmt]

NoValidation == [obj |-> FALSE, calc |-> FALSE, req |-> FALSE, q |-> 0]

\* an entity name is its sequence of words; <<>> is None
NoName == << >>

NoParty == [obj |-> FALSE, name |-> NoName]

NoInvoice == [obj |-> FALSE, number |-> "None", date |-> 0, due |-> 0]

NoData == [supplier |-> NoParty, customer |-> NoParty, invoice |-> NoInvoice,
           items |-> << >>, totals |-> NoTotals, validation |-> NoValidation,
           confidence |-> 0]

RECURSIVE SumAmounts(_)
SumAmounts(s) == IF s = << >> THEN Cents(0) ELSE Plus(Head(s), SumAmounts(Tail(s)))

-----------------------------------------------------------------------------
(* DataExtractor: the basic pattern extraction *)

\* Supplier(**supplier_data) if supplier_data else None
ExtractSupplierInfo(t) ==
    IF t.supplierLine # NoName \/ t.supplierExtra
    THEN [obj |-> TRUE, name |-> t.supplierLine]
    ELSE NoParty

\* Customer(**customer_data) if customer_data else None
ExtractCustomerInfo(t) ==
    IF t.customerLine # NoName \/ t.customerExtra
    THEN [obj |-> TRUE, name |-> t.customerLine]
    ELSE NoParty

\* invoice_info always holds 'currency', so the Invoice object always exists;
\* the date patterns are commented out in the source
ExtractInvoiceInfo(t) == [obj |-> TRUE, number |-> t.number, date |-> 0, due |-> 0]

ExtractLineItems(t) == t.items

\* first match per field; amount_due defaults to the TTC total; None when
\* no pattern matched at all
ExtractTotals(t) ==
    LET due == IF Present(t.ttc) /\ ~Present(t.total) THEN t.ttc ELSE t.total
    IN  IF Present(t.sousTotal) \/ Present(t.tva) \/ Present(t.ttc) \/ Present(due)
        THEN [obj |-> TRUE, sub |-> t.sousTotal, vat |-> t.tva, incl |-> t.ttc, due |-> due]
        ELSE NoTotals

\* the number of keywords of _calculate_confidence
NumKeywords == 10

\* found_keywords / len(keywords), in hundredths
CalculateConfidence(t) == (t.keywords * 100) \div NumKeywords

\* the weights of the basic data_quality_score, in hundredths
WeightTotals == 40
WeightItems == 30
WeightCalc == 30

ValidateDataCalc(totals, items) ==
    /\ totals.obj
    /\ items # << >>
    /\ Truthy(totals.sub)
    /\ CloserThanTolerance(SumAmounts(items), totals.sub)

\* a variant that does not accept the amount due in place of the total
ValidateDataRequiredTotalOnly(totals) ==
    totals.obj /\ Truthy(totals.incl)

ValidateDataRequired(totals) ==
    totals.obj /\ (Truthy(totals.incl) \/ Truthy(totals.due))

\* a variant whose score counts the totals only when there is no line item
ValidateDataTotalsWithoutItems(totals, items) ==
    LET calc == ValidateDataCalc(totals, items)
    IN  [obj  |-> TRUE,
         calc |-> calc,
         req  |-> ValidateDataRequired(totals),
         q    |-> (IF totals.obj /\ items = << >> THEN WeightTotals ELSE 0)
                  + (IF items # << >> THEN WeightItems ELSE 0)
                  + (IF calc THEN WeightCalc ELSE 0)]

ValidateData(totals, items) ==
    LET calc == ValidateDataCalc(totals, items)
    IN  [obj  |-> TRUE,
         calc |-> calc,
         req  |-> ValidateDataRequired(totals),
         q    |-> (IF totals.obj THEN WeightTotals ELSE 0)
                  + (IF items # << >> THEN WeightItems ELSE 0)
                  + (IF calc THEN WeightCalc ELSE 0)]

\* the InvoiceData built by extract_invoice_data when no stage raises
BasicData(t) ==
    LET totals == ExtractTotals(t)
        items  == ExtractLineItems(t)
    IN  [supplier   |-> ExtractSupplierInfo(t),
         customer   |-> ExtractCustomerInfo(t),
         invoice    |-> ExtractInvoiceInfo(t),
         items      |-> items,
         totals     |-> totals,
         validation |-> ValidateData(totals, items),
         confidence |-> CalculateConfidence(t)]

-----------------------------------------------------------------------------
(* Names and the reference store *)

\* len(w) of the words of the texts and of the store
WordLen(w) ==
    CASE w = "ACME" -> 4
      [] w = "ENERGIE" -> 7
      [] w = "SA" -> 2
      [] w = "Zog" -> 3
      [] w = "SITSE" -> 5
      [] w = "Services" -> 8
      [] OTHER -> 7

RECURSIVE CharLen(_)
\* len(name): the words and the single spaces between them
CharLen(name) ==
    IF name = << >> THEN 0
    ELSE IF Len(name) = 1 THEN WordLen(name[1])
    ELSE WordLen(Head(name)) + 1 + CharLen(Tail(name))

\* re.search(re.escape(phrase), text, re.IGNORECASE) on whole words
Contains(words, phrase) ==
    /\ phrase # << >>
    /\ \E i \in 0..(Len(words) - Len(phrase)) :
          SubSeq(words, i + 1, i + Len(phrase)) = phrase

FirstWords(name, k) == SubSeq(name, 1, IF Len(name) < k THEN Len(name) ELSE k)

\* the sentinels of the LLM-enhanced extractor
UnknownSupplier == <<"Fournisseur", "Inconnu">>
DefaultCompany == <<"DEFAULT_COMPANY">>

\* the names of the LLM fallback record
FallbackSupplier == <<"Fournisseur", "a", "identifier">>
FallbackCustomer == <<"SITSE", "Services", "Industriels">>

-----------------------------------------------------------------------------
(* MLEnhancedExtractor: amounts *)

\* bounds of a "reasonable" historical VAT rate, in percent
RateLow == 15
RateHigh == 25

\* the rates vat / excluding_taxes of the historical invoices that pass the filter
RECURSIVE VatRates(_)
VatRates(history) ==
    IF history = << >> THEN << >>
    ELSE LET inv  == Head(history)
             rest == VatRates(Tail(history))
         IN  IF /\ Truthy(inv.excl) /\ Truthy(inv.vat) /\ inv.excl.n > 0
                /\ RateLow * inv.excl.n * inv.vat.d <= 100 * inv.vat.n * inv.excl.d
                /\ 100 * inv.vat.n * inv.excl.d <= RateHigh * inv.excl.n * inv.vat.d
             THEN <<Times(inv.vat, [n |-> inv.excl.d, d |-> inv.excl.n])>> \o rest
             ELSE rest

\* sum(vat_rates) / len(vat_rates)
AverageRate(rates) == Times(SumAmounts(rates), [n |-> 1, d |-> Len(rates)])

\* lines 190-199: the estimate of the VAT and the total from the history
ApplyHistoricalRate(totals, rate) ==
    LET vat  == IF Truthy(totals.sub) /\ ~Truthy(totals.vat)
                THEN Times(totals.sub, rate) ELSE totals.vat
        incl == IF Truthy(totals.sub) /\ Truthy(vat) /\ ~Truthy(totals.incl)
                THEN Plus(totals.sub, vat) ELSE totals.incl
    IN  [totals EXCEPT !.vat = vat, !.incl = incl]

\* a variant in which the query of the history is built and run: the totals
\* are completed with the average historical rate
EnhanceAmountsWithHistoryQueried(totals, st) ==
    IF ~st.up THEN totals
    ELSE LET rates == VatRates(st.history)
         IN  IF rates = << >> THEN totals
             ELSE ApplyHistoricalRate(totals, AverageRate(rates))

\* _enhance_amounts_with_history: inside the method the name `text` is the
\* str parameter, not sqlalchemy.text, so `query = text(...)` at line 171
\* raises TypeError on every call; the handler logs it and returns the totals
\* as they are, whatever the history holds
EnhanceAmountsWithHistory(totals, st) == totals

\* _extract_amounts_ml: the amounts of the ML patterns; the subtotal line of
\* the texts is of the form "TOTAL HT: x", which the basic, the ML and the LLM
\* patterns all read
ExtractAmountsML(t) ==
    [ttc |-> t.ttc,
     ht  |-> t.sousTotal,
     tva |-> IF Present(t.tva) THEN t.tva ELSE t.tvaDotted]

\* lines 229-238: a field the basic extraction left falsy takes the ML value
EnhanceAmountsWithPatterns(totals, t) ==
    LET ml == ExtractAmountsML(t)
    IN  IF ~totals.obj THEN totals
        ELSE [totals EXCEPT
                !.incl = IF ~Truthy(totals.incl) /\ Truthy(ml.ttc) THEN ml.ttc ELSE @,
                !.sub  = IF ~Truthy(totals.sub) /\ Truthy(ml.ht) THEN ml.ht ELSE @,
                !.vat  = IF ~Truthy(totals.vat) /\ Truthy(ml.tva) THEN ml.tva ELSE @]

\* _validate_amounts_consistency
ValidateAmountsConsistency(totals) ==
    IF /\ Truthy(totals.sub) /\ Truthy(totals.vat) /\ Truthy(totals.incl)
       /\ DiffersBeyondTolerance(Plus(totals.sub, totals.vat), totals.incl)
    THEN [totals EXCEPT !.incl = Plus(totals.sub, totals.vat)]
    ELSE totals

\* _check_calculation_consistency
CheckCalculationConsistency(totals) ==
    /\ Truthy(totals.sub) /\ Truthy(totals.vat) /\ Truthy(totals.incl)
    /\ ~DiffersBeyondTolerance(Plus(totals.sub, totals.vat), totals.incl)

\* the number of checks of the ML score that pass
MLScore(d) ==
    (IF d.invoice.obj /\ d.invoice.number # "None" THEN 1 ELSE 0)
    + (IF d.totals.obj /\ Truthy(d.totals.incl) THEN 1 ELSE 0)
    + (IF d.supplier.obj /\ d.supplier.name # NoName THEN 1 ELSE 0)
    + (IF d.invoice.obj /\ d.invoice.date # 0 THEN 1 ELSE 0)

\* the number of checks of the ML score
MLChecks == 4

MLRequiredFieldsPresent(d) == MLScore(d) >= 2

\* _calculate_ml_validation_score
CalculateMLValidationScore(d) ==
    [obj  |-> TRUE,
     calc |-> d.totals.obj /\ CheckCalculationConsistency(d.totals),
     req  |-> MLRequiredFieldsPresent(d),
     q    |-> (MLScore(d) * 100) \div MLChecks]

-----------------------------------------------------------------------------
(* MLEnhancedExtractor: lookups of similar names in the store *)

WordSet(name) == {name[i] : i \in 1..Len(name)}

\* similarity(a, b) of the store, in hundredths: the share of common words
Similarity(a, b) ==
    IF a = << >> /\ b = << >> THEN 0
    ELSE (Cardinality(WordSet(a) \cap WordSet(b)) * 100)
            \div Cardinality(WordSet(a) \cup WordSet(b))

\* the threshold of a similarity match, in hundredths
SimilarityThreshold == 30

\* the number of leading characters of the candidate used in the LIKE pattern
NamePrefixLen == 10

RECURSIVE PrefixWordsFrom(_, _)
\* the words of name[:10], a word that is cut being kept whole
PrefixWordsFrom(name, offset) ==
    IF name = << >> \/ offset >= NamePrefixLen THEN << >>
    ELSE <<Head(name)>> \o PrefixWordsFrom(Tail(name), offset + WordLen(Head(name)) + 1)

\* LOWER(column) LIKE LOWER('%' || name[:10] || '%')
LikeMatch(column, name) == Contains(column, PrefixWordsFrom(name, 0))

SimilarRow(column, name) ==
    LikeMatch(column, name) \/ Similarity(column, name) > SimilarityThreshold

\* the rows ORDER BY similarity DESC LIMIT 1 can return: the order of rows of
\* equal similarity is not defined by the query
BestRows(columns, name) ==
    LET rows == {i \in 1..Len(columns) : SimilarRow(columns[i], name)}
    IN  {i \in rows : \A j \in rows : Similarity(columns[j], name) <= Similarity(columns[i], name)}

\* _find_similar_supplier: the social_reason values it can return (NoName: None)
FindSimilarSupplier(name, st) ==
    IF ~st.up \/ BestRows(st.suppliers, name) = {} THEN {NoName}
    ELSE {st.suppliers[i] : i \in BestRows(st.suppliers, name)}

CompanyNames(st) == [i \in 1..Len(st.companies) |-> st.companies[i].name]

\* _find_similar_company: the company_name values it can return (NoName: None)
FindSimilarCompany(name, st) ==
    IF ~st.up \/ BestRows(CompanyNames(st), name) = {} THEN {NoName}
    ELSE {st.companies[i].name : i \in BestRows(CompanyNames(st), name)}

\* lines 75-80 and 87-91: the name of a party after the lookup returned `found`
EnhancedParty(party, found) ==
    IF party.obj /\ party.name # NoName /\ found # NoName
    THEN [party EXCEPT !.name = found]
    ELSE party

\* a date is the number yyyymmdd, 0 standing for None
Year(n) == n \div 10000
Month(n) == (n \div 100) % 100
Day(n) == n % 100

\* the number of days of a month (leap years left aside)
DaysIn(month) ==
    IF month = 2 THEN 28 ELSE IF month \in {4, 6, 9, 11} THEN 30 ELSE 31

\* date(year, month, day) and strptime accept the date
ValidDate(n) == Month(n) \in 1..12 /\ Day(n) \in 1..DaysIn(Month(n))

\* the day/month/year pattern \d{1,2}[/\-\.]\d{1,2}[/\-\.]\d{2,4} applied to a
\* date written yyyy-mm-dd matches "yy-mm-dd": the last two digits of the year
\* are read as the day and the day as a two-digit year
Misread(n) == (2000 + Day(n)) * 10000 + Month(n) * 100 + (Year(n) % 100)

RECURSIVE MLFirstPattern(_)
\* the dates of the first pattern of _extract_dates_ml, in the order of the
\* text: a date _parse_date cannot read is skipped
MLFirstPattern(dates) ==
    IF dates = << >> THEN << >>
    ELSE LET e    == Head(dates)
             rest == MLFirstPattern(Tail(dates))
         IN  IF e.fmt = "dmy" THEN <<e.day>> \o rest
             ELSE IF e.fmt = "iso" /\ ValidDate(Misread(e.day)) THEN <<Misread(e.day)>> \o rest
             ELSE rest

RECURSIVE MLSecondPattern(_)
\* the dates of the second pattern, \d{4}[/\-\.]\d{1,2}[/\-\.]\d{1,2}
MLSecondPattern(dates) ==
    IF dates = << >> THEN << >>
    ELSE IF Head(dates).fmt = "iso" THEN <<Head(dates).day>> \o MLSecondPattern(Tail(dates))
    ELSE MLSecondPattern(Tail(dates))

\* found_dates of _extract_dates_ml: pattern by pattern, never sorted
MLFoundDates(t) == MLFirstPattern(t.dates) \o MLSecondPattern(t.dates)

\* lines 212-227: invoice number and dates from the ML patterns; the invoice
\* date is the first date found and the due date the last one
EnhanceInvoiceWithPatterns(invoice, t) ==
    LET number == IF (~invoice.obj \/ invoice.number = "None") /\ t.numberML # "None"
                  THEN t.numberML ELSE invoice.number
        obj    == invoice.obj \/ number # "None"
        found  == MLFoundDates(t)
        date   == IF obj /\ found # << >> /\ invoice.date = 0
                  THEN found[1] ELSE invoice.date
        due    == IF obj /\ Len(found) > 1 /\ invoice.due = 0
                  THEN found[Len(found)] ELSE invoice.due
    IN  [obj |-> obj, number |-> number, date |-> date, due |-> due]

\* lines 78-80: once the supplier's name is replaced, the handler reads
\* base_data.supplier.rcs; the Supplier model has no field rcs, so the read
\* raises AttributeError and _enhance_with_historical_data returns at once,
\* before the lookup of the company
SupplierEnhancementRaises(party, found) ==
    party.obj /\ party.name # NoName /\ found # NoName

\* the InvoiceData of extract_invoice_data_with_ml when the basic extraction
\* succeeds, the lookups having returned foundSupplier and foundCompany
MLData(t, st, foundSupplier, foundCompany) ==
    LET base     == BasicData(t)
        hist     == [base EXCEPT
                       !.supplier = EnhancedParty(@, foundSupplier),
                       !.customer = IF SupplierEnhancementRaises(base.supplier, foundSupplier)
                                    THEN @ ELSE EnhancedParty(@, foundCompany),
                       !.totals   = IF @.obj THEN EnhanceAmountsWithHistory(@, st) ELSE @]
        pattern  == [hist EXCEPT
                       !.invoice = EnhanceInvoiceWithPatterns(@, t),
                       !.totals  = EnhanceAmountsWithPatterns(@, t)]
        checked  == [pattern EXCEPT
                       !.totals = IF @.obj THEN ValidateAmountsConsistency(@) ELSE @]
    IN  [checked EXCEPT !.validation = CalculateMLValidationScore(checked)]

-----------------------------------------------------------------------------
(* LLMEnhancedExtractor *)

\* _load_companies_from_db / _load_suppliers_from_db: [] when the query fails
LoadCompanies(st) == IF st.up THEN st.companies ELSE << >>

LoadSuppliers(st) == IF st.up THEN st.suppliers ELSE << >>

\* the smallest element of a non-empty set of integers
Least(S) == CHOOSE x \in S : \A y \in S : x <= y

LLMCompanyMatches(company, words) ==
    \/ Contains(words, company.erp)
    \/ /\ CharLen(company.name) > 5
       /\ Len(FirstWords(company.name, 3)) >= 2
       /\ Contains(words, FirstWords(company.name, 3))

\* _find_company_in_text: the ERP code of the first company found in the text,
\* else of the first company loaded, else "DEFAULT_COMPANY"
FindCompanyInText(words, companies) ==
    LET hits == {i \in 1..Len(companies) : LLMCompanyMatches(companies[i], words)}
    IN  IF hits # {} THEN companies[Least(hits)].erp
        ELSE IF companies # << >> THEN companies[1].erp
        ELSE DefaultCompany

LLMSupplierMatches(name, words) ==
    /\ CharLen(name) > 3
    /\ (Contains(words, name) \/ Contains(words, FirstWords(name, 1)))

\* _find_supplier_in_text: the first supplier found in the text, else the name
\* a generic pattern captures, else "Fournisseur Inconnu"
FindSupplierInText(t, suppliers) ==
    LET hits == {i \in 1..Len(suppliers) : LLMSupplierMatches(suppliers[i], t.words)}
    IN  IF hits # {} THEN suppliers[Least(hits)]
        ELSE IF t.genericSupplier # NoName THEN t.genericSupplier
        ELSE UnknownSupplier

\* the largest "reasonable" amount of the LLM patterns, 999999.99, in cents
LLMMaxCents == 99999999

\* 0.01 <= amount_value <= 999999.99, a Decimal compared with two floats: the
\* float 0.01 is above 1 cent and the float 999999.99 is below 99999999 cents,
\* so an amount in whole cents passes when it is strictly between the two
Reasonable(a) == Present(a) /\ ~Leq(a, Cents(1)) /\ ~Leq(Cents(LLMMaxCents), a)

Kept(a) == IF Reasonable(a) THEN a ELSE NoAmt

\* lines 261-277: the amounts the patterns find, by key
LLMFoundAmounts(t) ==
    [ttc     |-> Kept(t.ttc),
     ht      |-> Kept(t.sousTotal),
     tva     |-> Kept(IF Present(t.tva) THEN t.tva ELSE t.tvaDotted),
     generic |-> Kept(t.currencyAmt)]

\* lines 279-285: the missing one of the three is deduced from the other two
LLMDeduceMissing(a) ==
    IF Present(a.ht) /\ Present(a.tva) /\ ~Present(a.ttc)
    THEN [a EXCEPT !.ttc = Plus(a.ht, a.tva)]
    ELSE IF Present(a.ttc) /\ Present(a.ht) /\ ~Present(a.tva)
    THEN [a EXCEPT !.tva = Minus(a.ttc, a.ht)]
    ELSE IF Present(a.ttc) /\ Present(a.tva) /\ ~Present(a.ht)
    THEN [a EXCEPT !.ht = Minus(a.ttc, a.tva)]
    ELSE a

EmptyAmounts(a) ==
    ~Present(a.ttc) /\ ~Present(a.ht) /\ ~Present(a.tva) /\ ~Present(a.generic)

\* lines 287-294: `not amounts and 'amount_generic' in amounts` never holds;
\* an empty dict gets total_ttc = 0.00
LLMDefaultAmounts(a) ==
    IF EmptyAmounts(a) THEN [a EXCEPT !.ttc = Cents(0)] ELSE a

\* _llm_extract_amounts
LLMExtractAmounts(t) == LLMDefaultAmounts(LLMDeduceMissing(LLMFoundAmounts(t)))

\* _intelligent_validation_and_correction, amounts
LLMCorrectAmounts(a) ==
    IF EmptyAmounts(a) THEN a
    ELSE IF /\ Present(a.ht) /\ Present(a.tva)
            /\ (~Present(a.ttc) \/ DiffersBeyondTolerance(a.ttc, Plus(a.ht, a.tva)))
    THEN [a EXCEPT !.ttc = Plus(a.ht, a.tva)]
    ELSE a

OrZero(a) == IF Present(a) THEN a ELSE Cents(0)

\* _build_complete_invoice_data, totals: amounts.get(key, Decimal('0.00'))
LLMTotals(a) ==
    [obj |-> TRUE, sub |-> OrZero(a.ht), vat |-> OrZero(a.tva),
     incl |-> OrZero(a.ttc), due |-> OrZero(a.ttc)]

\* the confidence and quality scores the LLM path writes, in hundredths
LLMConfidence == 95
LLMQuality == 95
FallbackConfidence == 50
FallbackQuality == 50

\* _build_complete_invoice_data, validation
LLMValidation == [obj |-> TRUE, calc |-> TRUE, req |-> TRUE, q |-> LLMQuality]


\* the largest element of a non-empty set of integers
Greatest(S) == CHOOSE x \in S : \A y \in S : y <= x

\* the years _llm_extract_dates accepts
LLMFirstYear == 2000
LLMLastYear == 2030

\* the date _llm_extract_dates reads from one date of the text, 0 when it
\* rejects it: a date written yyyy-mm-dd is read by the first pattern only (the
\* second pattern takes the year for the day and is rejected), a date with the
\* name of the month by the third
LLMReadDate(e) ==
    LET n == IF e.fmt = "iso" THEN Misread(e.day) ELSE e.day
    IN  IF ValidDate(n) /\ Year(n) \in LLMFirstYear..LLMLastYear THEN n ELSE 0

\* found_dates of _llm_extract_dates, as a set (the list is sorted)
LLMFoundDates(t) == {LLMReadDate(t.dates[i]) : i \in 1..Len(t.dates)} \ {0}

\* the number of dates found, repetitions included
LLMNumFound(t) == Cardinality({i \in 1..Len(t.dates) : LLMReadDate(t.dates[i]) # 0})

\* _llm_extract_dates: the earliest date found, today when none is found
LLMInvoiceDate(t, day) ==
    IF LLMFoundDates(t) = {} THEN day ELSE Least(LLMFoundDates(t))

\* _llm_extract_dates and lines 465-471: the latest date when two or more are
\* found, raised to the invoice date if it is earlier
LLMDueDate(t, day) ==
    IF LLMNumFound(t) > 1
    THEN LET due == Greatest(LLMFoundDates(t))
         IN  IF due < LLMInvoiceDate(t, day) THEN LLMInvoiceDate(t, day) ELSE due
    ELSE 0

\* _llm_extract_invoice_number: a number is generated when none is found
LLMInvoiceNumber(t) == IF t.numberLLM # "None" THEN t.numberLLM ELSE "INV-generated"

\* the InvoiceData of extract_invoice_data_with_llm when no stage raises
LLMData(t, st, day) ==
    [supplier   |-> [obj |-> TRUE, name |-> FindSupplierInText(t, LoadSuppliers(st))],
     customer   |-> [obj |-> TRUE, name |-> FindCompanyInText(t.words, LoadCompanies(st))],
     invoice    |-> [obj |-> TRUE, number |-> LLMInvoiceNumber(t),
                     date |-> LLMInvoiceDate(t, day), due |-> LLMDueDate(t, day)],
     items      |-> << >>,
     totals     |-> LLMTotals(LLMCorrectAmounts(LLMExtractAmounts(t))),
     validation |-> LLMValidation,
     confidence |-> LLMConfidence]

\* a variant of the fallback record without a supplier and a customer
FallbackDataWithoutNames ==
    [supplier   |-> NoParty,
     customer   |-> NoParty,
     invoice    |-> [obj |-> TRUE, number |-> "FALLBACK-generated", date |-> 0, due |-> 0],
     items      |-> << >>,
     totals     |-> [obj |-> TRUE, sub |-> Cents(0), vat |-> Cents(0),
                     incl |-> Cents(0), due |-> Cents(0)],
     validation |-> [obj |-> TRUE, calc |-> TRUE, req |-> FALSE, q |-> FallbackQuality],
     confidence |-> FallbackConfidence]

\* _fallback_extraction
FallbackData ==
    [supplier   |-> [obj |-> TRUE, name |-> FallbackSupplier],
     customer   |-> [obj |-> TRUE, name |-> FallbackCustomer],
     invoice    |-> [obj |-> TRUE, number |-> "FALLBACK-generated", date |-> 0, due |-> 0],
     items      |-> << >>,
     totals     |-> [obj |-> TRUE, sub |-> Cents(0), vat |-> Cents(0),
                     incl |-> Cents(0), due |-> Cents(0)],
     validation |-> [obj |-> TRUE, calc |-> TRUE, req |-> FALSE, q |-> FallbackQuality],
     confidence |-> FallbackConfidence]

-----------------------------------------------------------------------------
(* SwissInvoiceExtractor: the database path of the assembler *)

SwissCompanyMatches(company, words) ==
    \/ Contains(words, company.erp)
    \/ /\ CharLen(company.name) > 3
       /\ Len(company.name) >= 2
       /\ Contains(words, FirstWords(company.name, 2))

\* _extract_company_from_db: the ERP code of the first company found in the
\* text; None when there is none or when the query fails
ExtractCompanyFromDb(words, st) ==
    LET hits == {i \in 1..Len(st.companies) : SwissCompanyMatches(st.companies[i], words)}
    IN  IF ~st.up \/ hits = {} THEN NoName ELSE st.companies[Least(hits)].erp

SwissSupplierMatches(name, words) ==
    /\ CharLen(name) > 3
    /\ \/ Contains(words, name)
       \/ (Len(name) >= 2 /\ Contains(words, FirstWords(name, 2)))

\* _extract_supplier_from_db: the first supplier found in the text; None when
\* there is none or when the query fails
ExtractSupplierFromDb(words, st) ==
    LET hits == {i \in 1..Len(st.suppliers) : SwissSupplierMatches(st.suppliers[i], words)}
    IN  IF ~st.up \/ hits = {} THEN NoName ELSE st.suppliers[Least(hits)]

\* extract_invoice_data_with_db
SwissData(t, st) ==
    [obj      |-> TRUE,
     number   |-> t.numberSwiss,
     date     |-> t.dateSwiss,
     company  |-> ExtractCompanyFromDb(t.words, st),
     supplier |-> ExtractSupplierFromDb(t.words, st),
     ttc      |-> t.swTtc,
     ht       |-> t.swHt,
     tva      |-> t.swTva]

\* db_data = None: no raw text was given to the assembler
NoSwissData ==
    [obj |-> FALSE, number |-> "None", date |-> 0, company |-> NoName, supplier |-> NoName,
     ttc |-> NoAmt, ht |-> NoAmt, tva |-> NoAmt]

-----------------------------------------------------------------------------
(* InvoiceService: the assembler *)

ExtractInvoiceNumberEnhanced(d, db) ==
    IF db.number # "None" THEN db.number
    ELSE IF d.invoice.obj THEN d.invoice.number ELSE "None"

ExtractInvoiceDateEnhanced(d, db) ==
    IF db.date # 0 THEN db.date
    ELSE IF d.invoice.obj THEN d.invoice.date ELSE 0

ExtractSupplierNameEnhanced(d, db) ==
    IF db.supplier # NoName THEN db.supplier
    ELSE IF d.supplier.obj THEN d.supplier.name ELSE NoName

ExtractCompanyEnhanced(d, db) ==
    IF db.company # NoName THEN db.company
    ELSE IF d.customer.obj THEN d.customer.name ELSE NoName

\* _extract_excluding_taxes, _extract_vat
TruthyOrNone(a) == IF Truthy(a) THEN a ELSE NoAmt

\* _extract_including_taxes: the TTC total, else the amount due
ExtractIncludingTaxes(d) ==
    IF d.totals.obj /\ Truthy(d.totals.incl) THEN d.totals.incl
    ELSE IF d.totals.obj /\ Truthy(d.totals.due) THEN d.totals.due
    ELSE NoAmt

\* _extract_amounts_enhanced: field by field, the database path first
ExtractAmountsEnhanced(d, db) ==
    [excl |-> IF Truthy(db.ht) THEN db.ht
              ELSE IF d.totals.obj THEN TruthyOrNone(d.totals.sub) ELSE NoAmt,
     vat  |-> IF Truthy(db.tva) THEN db.tva
              ELSE IF d.totals.obj THEN TruthyOrNone(d.totals.vat) ELSE NoAmt,
     incl |-> IF Truthy(db.ttc) THEN db.ttc ELSE ExtractIncludingTaxes(d)]

\* uuid.uuid4() of the assembler: the identity of the invoice
InvoiceId == "invoice-uuid"

\* a variant that creates the goal whether or not there is an amount
CreateInvoiceGoalsAlways(invoiceId, d, incl) ==
    <<[invoice_id |-> invoiceId, amount |-> incl]>>

\* _create_invoice_goals_dto_only_enhanced: one goal when there is an amount
CreateInvoiceGoals(invoiceId, d, incl) ==
    LET amount == IF ~Truthy(incl) /\ d.totals.obj /\ Truthy(d.totals.incl)
                  THEN d.totals.incl ELSE incl
    IN  IF Truthy(amount) THEN <<[invoice_id |-> invoiceId, amount |-> amount]>> ELSE << >>

\* the InvoiceDTO of create_invoice_from_extracted_data
AssembleInvoice(d, db) ==
    LET amounts == ExtractAmountsEnhanced(d, db)
    IN  [obj      |-> TRUE,
         id       |-> InvoiceId,
         number   |-> ExtractInvoiceNumberEnhanced(d, db),
         date     |-> ExtractInvoiceDateEnhanced(d, db),
         supplier |-> ExtractSupplierNameEnhanced(d, db),
         company  |-> ExtractCompanyEnhanced(d, db),
         excl     |-> amounts.excl,
         vat      |-> amounts.vat,
         incl     |-> amounts.incl,
         goals    |-> CreateInvoiceGoals(InvoiceId, d, amounts.incl)]

NoDto == [obj |-> FALSE, id |-> "None", number |-> "None", date |-> 0, supplier |-> NoName,
          company |-> NoName, excl |-> NoAmt, vat |-> NoAmt, incl |-> NoAmt,
          goals |-> << >>]

-----------------------------------------------------------------------------
(* The requests the model runs *)

OptAmounts == {NoAmt} \cup {Cents(c) : c \in 0..MaxAmt}

\* the keywords of _calculate_confidence that the amount lines of a text contain
ImpliedKeywords(t) ==
    (IF Present(t.sousTotal) \/ Present(t.ttc) \/ Present(t.total) THEN 1 ELSE 0)
    + (IF Present(t.sousTotal) THEN 1 ELSE 0)
    + (IF Present(t.ttc) THEN 1 ELSE 0)
    + (IF Present(t.tva) THEN 1 ELSE 0)

EmptyText ==
    [malformed |-> FALSE,
     sousTotal |-> NoAmt, tva |-> NoAmt, tvaDotted |-> NoAmt, ttc |-> NoAmt,
     total |-> NoAmt, currencyAmt |-> NoAmt,
     swTtc |-> NoAmt, swHt |-> NoAmt, swTva |-> NoAmt,
     number |-> "None", numberML |-> "None", numberLLM |-> "None",
     numberSwiss |-> "None", dates |-> << >>, dateSwiss |-> 0,
     supplierLine |-> NoName, supplierExtra |-> FALSE,
     customerLine |-> NoName, customerExtra |-> FALSE,
     genericSupplier |-> NoName, items |-> << >>, words |-> << >>, keywords |-> 0]

WithKeywords(t) == [t EXCEPT !.keywords = ImpliedKeywords(t)]

EmptyStore ==
    [up |-> TRUE, suppliers |-> << >>, companies |-> << >>, history |-> << >>, mlRows |-> 0]

\* historical invoices: VAT rates of 20 %, 25 % and 100 %
HistoryRows ==
    {[excl |-> Cents(5), vat |-> Cents(1)],
     [excl |-> Cents(4), vat |-> Cents(1)],
     [excl |-> Cents(1), vat |-> Cents(1)]}

Histories == UNION {[1..k -> HistoryRows] : k \in 0..MaxHist}

\* a store that answers, and one whose queries fail
HistoryStores ==
    {[EmptyStore EXCEPT !.history = h] : h \in Histories}
    \cup {[EmptyStore EXCEPT !.up = FALSE, !.history = <<[excl |-> Cents(5), vat |-> Cents(1)]>>]}

\* texts with every combination of a subtotal, a VAT and a TTC line
AmountTexts ==
    {WithKeywords([EmptyText EXCEPT !.sousTotal = a, !.tva = b, !.ttc = c]) :
        a \in OptAmounts, b \in OptAmounts, c \in OptAmounts}

\* texts with lines only some of the pattern sets read
PatternTexts ==
    {WithKeywords([EmptyText EXCEPT !.sousTotal = a, !.ttc = c, !.tvaDotted = v,
                                    !.total = d, !.currencyAmt = g]) :
        a \in {NoAmt, Cents(3)}, c \in {NoAmt, Cents(4)}, v \in {NoAmt, Cents(1)},
        d \in {NoAmt, Cents(MaxAmt)}, g \in {NoAmt, Cents(0), Cents(2)}}

\* texts in which the database path finds amounts of its own
AssemblerTexts ==
    {WithKeywords([EmptyText EXCEPT !.sousTotal = a, !.tva = b, !.ttc = c, !.total = d,
                                    !.swHt = h, !.swTva = v, !.swTtc = t]) :
        a \in {NoAmt, Cents(3)}, b \in {NoAmt, Cents(0), Cents(1)},
        c \in {NoAmt, Cents(4), Cents(MaxAmt)}, d \in {NoAmt, Cents(MaxAmt)},
        h \in {NoAmt, Cents(0), Cents(2)}, v \in {NoAmt, Cents(0), Cents(2)},
        t \in {NoAmt, Cents(0), Cents(2)}}

InitAmounts ==
    /\ \/ text \in AmountTexts /\ store \in HistoryStores
       \/ text \in PatternTexts /\ store \in HistoryStores
       \/ text \in AssemblerTexts /\ store = EmptyStore

StoreSuppliers ==
    {<< >>, << <<"ACME", "ENERGIE", "SA">> >>, << <<"ACME">> >>, << <<"Zog">> >>,
     << <<"ACME">>, <<"ACME", "ENERGIE", "SA">> >>,
     << <<"ACME", "ENERGIE", "SA">>, <<"ACME">> >>,
     << <<"ACME", "EST">>, <<"ACME", "SUD">> >>}

Sitse == [erp |-> <<"SITSE">>, name |-> <<"SITSE", "Services">>]
Acme == [erp |-> <<"ACME">>, name |-> <<"ACME", "ENERGIE">>]

StoreCompanies == {<< >>, <<Sitse>>, <<Sitse, Acme>>, <<Acme, Sitse>>}

EntityStores ==
    {[EmptyStore EXCEPT !.up = u, !.suppliers = s, !.companies = c] :
        u \in BOOLEAN, s \in StoreSuppliers, c \in StoreCompanies}

TextWords ==
    {<< >>, <<"ACME">>, <<"ACME", "ENERGIE">>, <<"SITSE">>, <<"Zog">>, <<"Zog", "SA">>,
     <<"SITSE", "Services", "ACME">>}

\* the supplier names extract_invoice_data can read in a text of these words:
\* _clean_text joins the lines of the text into one, so the supplier scan has
\* one line, the whole text; it is the name when it is longer than 3
\* characters and holds no keyword that ends the supplier section (FACTURE,
\* CLIENT, ...), no date, no '@'. The customer scan skips the line of its
\* keyword and has no other line: customerLine and customerExtra stay empty
SupplierLines(w) == {NoName} \cup (IF CharLen(w) > 3 THEN {w} ELSE {})

\* texts with every combination of a supplier name and of store names in the
\* text
EntityTexts ==
    UNION {{[EmptyText EXCEPT !.words = w, !.supplierLine = s, !.supplierExtra = x,
                              !.genericSupplier = g] :
               s \in SupplierLines(w), x \in BOOLEAN,
               g \in {NoName} \cup (IF w = <<"Zog", "SA">> THEN {w} ELSE {})} :
           w \in TextWords}

InitEntities == text \in EntityTexts /\ store \in EntityStores

ItemLists == UNION {[1..k -> {Cents(0), Cents(3)}] : k \in 0..MaxItems}

\* texts with every combination of the fields the scores count
ScoreTexts ==
    {[EmptyText EXCEPT !.number = n, !.numberML = m, !.numberLLM = l, !.dates = d,
                       !.supplierLine = s, !.words = s, !.sousTotal = a, !.ttc = c,
                       !.total = e, !.items = i, !.keywords = k] :
        n \in {"None", "F2025-001"}, m \in {"None", "FA-2025"}, l \in {"None", "F2025-001"},
        d \in {<< >>, <<[day |-> 20240115, fmt |-> "dmy"]>>}, s \in {NoName, <<"ACME">>},
        a \in {NoAmt, Cents(0), Cents(3)}, c \in {NoAmt, Cents(4)},
        e \in {NoAmt, Cents(MaxAmt)}, i \in ItemLists, k \in {0, 4, NumKeywords}}

\* a text whose one line is a supplier name holds no dd/mm date and not the
\* keyword 'facture'
SupplierLineReadable(t) ==
    t.supplierLine # NoName => t.dates = << >> /\ t.keywords < NumKeywords

\* a text on which the first pattern stage raises (not a string, for instance)
MalformedText == [EmptyText EXCEPT !.malformed = TRUE]

InitScores ==
    /\ text \in {t \in ScoreTexts : ImpliedKeywords(t) <= t.keywords /\ SupplierLineReadable(t)}
                \cup {MalformedText}
    /\ store \in {EmptyStore, [EmptyStore EXCEPT !.up = FALSE]}

\* the dates a text can carry: dd/mm/yyyy, yyyy-mm-dd, and a date with the
\* name of the month
DateEntries ==
    {[day |-> 20240115, fmt |-> "dmy"], [day |-> 20240214, fmt |-> "dmy"],
     [day |-> 20240115, fmt |-> "iso"], [day |-> 20240214, fmt |-> "iso"],
     [day |-> 20240301, fmt |-> "words"]}

DateLists == UNION {[1..k -> DateEntries] : k \in 0..MaxDates}

\* the dates the database path can read: those with the name of the month
SwissDates(dates) ==
    {0} \cup {dates[i].day : i \in {j \in 1..Len(dates) : dates[j].fmt = "words"}}

\* texts with every combination of dates and of invoice numbers
DateTexts ==
    UNION {{[EmptyText EXCEPT !.dates = d, !.dateSwiss = w, !.number = n, !.numberML = m,
                              !.numberLLM = l, !.numberSwiss = q] :
               w \in SwissDates(d), n \in {"None", "F2025-001"}, m \in {"None", "FA-2025"},
               l \in {"None", "F2025-001"}, q \in {"None", "2025-77"}} :
           d \in DateLists}

InitDates == text \in DateTexts /\ store = EmptyStore

\* the day of the run
Today == 20250310

InitRequest ==
    /\ today = Today
    /\ path = "None"
    /\ pc = "start"
    /\ data = NoData
    /\ dbData = NoSwissData
    /\ raised = "None"
    /\ dto = NoDto

Requests == {1, 2}

\* no persistence call was made yet
InitPersistence ==
    /\ attempts = << >>
    /\ pending = {}
    /\ committed = {}
    /\ outcome = "None"
    /\ resolved = [op |-> "None", name |-> NoName, found |-> NoName]

\* no request reached the route yet
InitRoute ==
    /\ rpc = [r \in Requests |-> "idle"]
    /\ rtext = [r \in Requests |-> EmptyText]
    /\ faults = [r \in Requests |-> {}]
    /\ sessionTx = "none"
    /\ sessionUsers = {}
    /\ result = [r \in Requests |-> NoDto]
    /\ tempFiles = {}

\* no section scan was run yet
NoScan ==
    [op |-> "None", supplierSection |-> << >>, supplier |-> << >>,
     customerSection |-> << >>, customer |-> << >>]

InitScan ==
    /\ doc = << >>
    /\ scan = NoScan

Init ==
    /\ InitRequest
    /\ InitAmounts \/ InitEntities \/ InitScores \/ InitDates
    /\ InitPersistence
    /\ InitRoute
    /\ InitScan

-----------------------------------------------------------------------------
(* The operations *)

\* DataExtractor.extract_invoice_data: an exception of a stage is wrapped in
\* DataExtractionError and raised
ExtractInvoiceData ==
    /\ pc = "start"
    /\ path' = "basic"
    /\ IF text.malformed
       THEN /\ raised' = "DataExtractionError"
            /\ pc' = "raised"
            /\ data' = data
       ELSE /\ data' = BasicData(text)
            /\ pc' = "returned"
            /\ raised' = raised
    /\ UNCHANGED <<text, store, today, dbData, dto>>
    /\ UNCHANGED <<persistVars, routeVars>>
    /\ UNCHANGED scanVars

SupplierLookups(t, st) ==
    LET base == BasicData(t).supplier
    IN  IF base.obj /\ base.name # NoName THEN FindSimilarSupplier(base.name, st) ELSE {NoName}

CompanyLookups(t, st) ==
    LET base == BasicData(t).customer
    IN  IF base.obj /\ base.name # NoName THEN FindSimilarCompany(base.name, st) ELSE {NoName}

\* _save_ml_training_data: one row of invoice_ml_data, unless the insert fails
SaveMLTrainingData(st) == IF st.up THEN [st EXCEPT !.mlRows = @ + 1] ELSE st

\* MLEnhancedExtractor.extract_invoice_data_with_ml: the enhancement stages catch
\* their own exceptions; when the basic extraction raises, it is run again in
\* the handler and raises again
ExtractInvoiceDataWithML ==
    /\ pc = "start"
    /\ path' = "ml"
    /\ IF text.malformed
       THEN /\ raised' = "DataExtractionError"
            /\ pc' = "raised"
            /\ UNCHANGED <<data, store>>
       ELSE /\ \E foundSupplier \in SupplierLookups(text, store) :
               \E foundCompany \in CompanyLookups(text, store) :
                  data' = MLData(text, store, foundSupplier, foundCompany)
            /\ store' = SaveMLTrainingData(store)
            /\ pc' = "returned"
            /\ raised' = raised
    /\ UNCHANGED <<text, today, dbData, dto>>
    /\ UNCHANGED <<persistVars, routeVars>>
    /\ UNCHANGED scanVars

\* LLMEnhancedExtractor.extract_invoice_data_with_llm: any exception leads to
\* the fallback record
ExtractInvoiceDataWithLLM ==
    /\ pc = "start"
    /\ path' = "llm"
    /\ data' = IF text.malformed THEN FallbackData ELSE LLMData(text, store, today)
    /\ pc' = "returned"
    /\ UNCHANGED <<text, store, today, dbData, raised, dto>>
    /\ UNCHANGED <<persistVars, routeVars>>
    /\ UNCHANGED scanVars

\* InvoiceService.create_invoice_from_extracted_data: the database path runs
\* when a raw text is given
CreateInvoiceFromExtractedData ==
    /\ pc = "returned"
    /\ \E withRawText \in BOOLEAN :
          /\ withRawText => ~text.malformed
          /\ dbData' = IF withRawText THEN SwissData(text, store) ELSE NoSwissData
          /\ dto' = AssembleInvoice(data, dbData')
    /\ pc' = "assembled"
    /\ UNCHANGED <<text, store, today, path, data, raised>>
    /\ UNCHANGED <<persistVars, routeVars>>
    /\ UNCHANGED scanVars

Next ==
    \/ ExtractInvoiceData
    \/ ExtractInvoiceDataWithML
    \/ ExtractInvoiceDataWithLLM
    \/ CreateInvoiceFromExtractedData

Spec == Init /\ [][Next]_vars

-----------------------------------------------------------------------------
(* Properties of the amounts *)

\* the amounts the patterns of an entry point capture in a text, before any
\* reconciliation
ExtractedAmounts(t, p) ==
    IF p = "llm"
    THEN LET found == LLMFoundAmounts(t)
         IN  [sub |-> found.ht, vat |-> found.tva, incl |-> found.ttc]
    ELSE IF p = "ml"
    THEN LET ml == ExtractAmountsML(t)
         IN  [sub |-> t.sousTotal, vat |-> ml.tva, incl |-> t.ttc]
    ELSE [sub |-> t.sousTotal, vat |-> t.tva, incl |-> t.ttc]

NumExtracted(t, p) ==
    LET e == ExtractedAmounts(t, p)
    IN  (IF Present(e.sub) THEN 1 ELSE 0) + (IF Present(e.vat) THEN 1 ELSE 0)
        + (IF Present(e.incl) THEN 1 ELSE 0)

\* the three amounts are present and excl + vat = incl within the tolerance
ConsistentTriple(sub, vat, incl) ==
    /\ Present(sub) /\ Present(vat) /\ Present(incl)
    /\ ~DiffersBeyondTolerance(Plus(sub, vat), incl)

\* C1: when exactly two of the three amounts were extracted, the record an
\* enhanced entry point returns holds all three, with excl + vat = incl within
\* 0.01, whatever the field that is missing and whatever the history holds
C1_TwoPresentThirdFilled ==
    (pc = "returned" /\ path \in {"ml", "llm"} /\ NumExtracted(text, path) = 2)
        => /\ data.totals.obj
           /\ ConsistentTriple(data.totals.sub, data.totals.vat, data.totals.incl)

\* C2: when all three amounts were extracted (a zero is an amount) and
\* excl + vat differs from incl by more than 0.01, the returned record keeps
\* the extracted excl and vat and holds incl = excl + vat
C2_InconsistentTotalOverwritten ==
    LET e == ExtractedAmounts(text, path)
    IN  (/\ pc = "returned" /\ path \in {"ml", "llm"}
         /\ NumExtracted(text, path) = 3
         /\ DiffersBeyondTolerance(Plus(e.sub, e.vat), e.incl))
            => /\ data.totals.obj
               /\ data.totals.sub = e.sub
               /\ data.totals.vat = e.vat
               /\ data.totals.incl = Plus(e.sub, e.vat)

C4_AssembledTripleConsistent ==
    (/\ pc = "assembled"
     /\ Present(dto.excl) /\ Present(dto.vat) /\ Present(dto.incl))
        => ~DiffersBeyondTolerance(Plus(dto.excl, dto.vat), dto.incl)

-----------------------------------------------------------------------------
(* Properties of the names *)

\* no supplier of the store is found in the text by the database path
SwissSupplierUnmatched ==
    \A i \in 1..Len(store.suppliers) : ~SwissSupplierMatches(store.suppliers[i], text.words)

\* no supplier of the store is found in the text by the LLM path
LLMSupplierUnmatched ==
    \A i \in 1..Len(store.suppliers) : ~LLMSupplierMatches(store.suppliers[i], text.words)

\* C5: the resolution of a supplier that matches no supplier of the store
\* never returns an absent name, in the LLM path and in the database path
C5_UnmatchedSupplierNeverAbsent ==
    /\ (pc = "returned" /\ path = "llm" /\ store.up /\ LLMSupplierUnmatched)
          => data.supplier.name # NoName
    /\ (pc = "assembled" /\ dbData.obj /\ store.up /\ SwissSupplierUnmatched)
          => dbData.supplier # NoName

\* C6: every InvoiceDTO the assembler returns has a supplier name and a
\* company reference
C6_AssembledNamesPresent ==
    pc = "assembled" => (dto.obj /\ dto.supplier # NoName /\ dto.company # NoName)

-----------------------------------------------------------------------------
(* Properties of the failures *)

\* a record with a supplier name, a customer name and the amounts 0.00
NamedZeroRecord(d) ==
    /\ d.supplier.obj /\ d.supplier.name # NoName
    /\ d.customer.obj /\ d.customer.name # NoName
    /\ d.invoice.obj
    /\ d.totals.obj
    /\ d.totals.sub = Cents(0) /\ d.totals.vat = Cents(0) /\ d.totals.incl = Cents(0)

\* C7, as the spec states it: when a pattern stage raises, no entry point
\* propagates the exception, and the caller gets a record with sentinel names
\* and zero amounts
C7_StageFailureNeverPropagates ==
    (text.malformed /\ pc # "start")
        => (raised = "None" /\ pc # "raised" /\ NamedZeroRecord(data))

\* C7, amended: when a pattern stage raises, the LLM entry point returns the
\* fallback record, with the names "Fournisseur a identifier" and "SITSE ...",
\* the amounts 0.00 and the confidence 0.5; the basic entry point raises
\* DataExtractionError, and so does the ML entry point, whose handler runs the
\* basic extraction again
C7_StageFailureFallbackOrDataExtractionError ==
    (text.malformed /\ pc # "start")
        => IF path = "llm"
           THEN /\ raised = "None" /\ pc # "raised"
                /\ NamedZeroRecord(data)
                /\ data.supplier.name = FallbackSupplier
                /\ data.customer.name = FallbackCustomer
                /\ data.confidence = FallbackConfidence
           ELSE /\ path \in {"basic", "ml"}
                /\ raised = "DataExtractionError" /\ pc = "raised"
                /\ data = NoData

\* the LLM entry point returned a record for a text on which a stage raises
C7_Witness == text.malformed /\ path = "llm" /\ pc = "returned" /\ data.totals.obj

\* a text without an invoice number, a supplier, a date and line items, and
\* with at most one amount line and fewer than half of the keywords
MissingData(t) ==
    /\ ~t.malformed
    /\ t.number = "None" /\ t.numberML = "None" /\ t.numberLLM = "None"
    /\ t.supplierLine = NoName /\ ~t.supplierExtra /\ t.genericSupplier = NoName
    /\ t.words = << >> /\ t.dates = << >> /\ t.items = << >>
    /\ Cardinality({f \in {"sousTotal", "tva", "tvaDotted", "ttc", "total", "currencyAmt"} :
                      Present(t[f])}) <= 1
    /\ 2 * t.keywords < NumKeywords

\* C8: for a text with missing data no entry point raises, and the record
\* returned has a confidence and a data quality score below 0.5
C8_MissingDataLowScores ==
    (MissingData(text) /\ pc # "start")
        => /\ raised = "None" /\ pc # "raised"
           /\ data.validation.obj
           /\ data.confidence < 50
           /\ data.validation.q < 50

\* C9: when the queries of the store fail, the run completes without error
\* and the company and supplier resolutions return a name
C9_StoreFailureGivesSentinels ==
    (~store.up /\ ~text.malformed)
        => /\ raised = "None"
           /\ (pc = "assembled" /\ dbData.obj)
                 => (dbData.company # NoName /\ dbData.supplier # NoName)
           /\ (pc = "returned" /\ path = "llm")
                 => (data.supplier.name # NoName /\ data.customer.name # NoName)

\* C10: in the basic and the ML scoring, required_fields_present holds exactly
\* when the record has an invoice number and a total_incl_vat or an amount_due
C10_RequiredFieldsPresent ==
    (pc = "returned" /\ path \in {"basic", "ml"})
        => (data.validation.req <=>
              /\ data.invoice.obj /\ data.invoice.number # "None"
              /\ data.totals.obj
              /\ (Truthy(data.totals.incl) \/ Truthy(data.totals.due)))

-----------------------------------------------------------------------------
(* Properties of the verdict *)

\* the totals of the ML path before _validate_amounts_consistency
MLTotalsBeforeValidation(t, st) ==
    LET base == ExtractTotals(t)
    IN  EnhanceAmountsWithPatterns(
            IF base.obj THEN EnhanceAmountsWithHistory(base, st) ELSE base, t)

\* the reconciliation of the path overwrote the total
TotalOverwritten ==
    \/ /\ path = "ml"
       /\ LET before == MLTotalsBeforeValidation(text, store)
          IN  before.obj /\ ValidateAmountsConsistency(before) # before
    \/ /\ path = "llm"
       /\ LET before == LLMExtractAmounts(text)
          IN  Present(before.ttc) /\ LLMCorrectAmounts(before).ttc # before.ttc

\* C11: when the reconciliation had to overwrite the total of a record, the
\* verdict of the record has calculation_check = false
C11_CorrectionClearsCalculationCheck ==
    (pc = "returned" /\ ~text.malformed /\ TotalOverwritten) => ~data.validation.calc

\* the fields of a text that count as extracted data
AmountFields == {"sousTotal", "tva", "tvaDotted", "ttc", "total"}

HasField(t, f) ==
    IF f \in AmountFields THEN Present(t[f])
    ELSE IF f \in {"number", "numberML"} THEN t[f] # "None"
    ELSE IF f = "supplierLine" THEN t[f] # NoName
    ELSE t[f] # << >>

\* the text without the field f; of the line items, without the last one
WithoutField(t, f) ==
    IF f \in AmountFields THEN [t EXCEPT ![f] = NoAmt]
    ELSE IF f \in {"number", "numberML"} THEN [t EXCEPT ![f] = "None"]
    ELSE IF f = "supplierLine" THEN [t EXCEPT ![f] = NoName]
    ELSE IF f = "items" THEN [t EXCEPT ![f] = SubSeq(@, 1, Len(@) - 1)]
    ELSE [t EXCEPT ![f] = << >>]

ScoredFields == AmountFields \cup {"number", "numberML", "supplierLine", "items", "dates"}

\* the data_quality_score values an entry point can give for a text
QualityScores(p, t, st) ==
    IF p = "basic" THEN {BasicData(t).validation.q}
    ELSE {MLData(t, st, fs, fc).validation.q :
            fs \in SupplierLookups(t, st), fc \in CompanyLookups(t, st)}

\* the score of the returned record is not below any score of the text
\* without the field f
NotBelowWithout(f) ==
    HasField(text, f) =>
        \A q \in QualityScores(path, WithoutField(text, f), store) : q <= data.validation.q

\* C12, as the spec states it: in the basic and in the ML scoring, the
\* data_quality_score of a text is not below the score of the same text
\* without one of its fields (a total, a subtotal, a line item, a number)
C12_QualityScoreMonotonic ==
    (pc = "returned" /\ path \in {"basic", "ml"})
        => \A f \in ScoredFields : NotBelowWithout(f)

\* the last line item of the text is the one that breaks the equality of the
\* sum of the line items and the subtotal
LastItemBreaksSum ==
    /\ Len(text.items) >= 2
    /\ ~data.validation.calc
    /\ BasicData(WithoutField(text, "items")).validation.calc

\* C12, amended: in the ML scoring the score never decreases when a field is
\* added; in the basic scoring it never decreases either, except when a
\* further line item breaks the equality of the sum of the line items and
\* the subtotal, and then it decreases by the weight of calculation_check
C12_QualityScoreMonotonicButForItems ==
    (pc = "returned" /\ path \in {"basic", "ml"})
        => /\ \A f \in ScoredFields \ {"items"} : NotBelowWithout(f)
           /\ IF path = "basic" /\ LastItemBreaksSum
              THEN data.validation.q + WeightCalc =
                      BasicData(WithoutField(text, "items")).validation.q
              ELSE NotBelowWithout("items")

\* the basic path scored a text whose last line item breaks the sum
C12_Witness == pc = "returned" /\ path = "basic" /\ LastItemBreaksSum

\* the line items of the returned record sum to its stated subtotal
ItemsSumToSubtotal ==
    /\ data.totals.obj /\ Present(data.totals.sub)
    /\ data.items # << >>
    /\ SumAmounts(data.items) = data.totals.sub

\* C13, as the spec states it: in the basic scoring, totals and line items
\* whose amounts sum to the stated subtotal give calculation_check = true,
\* required_fields_present = true and a score above 0.5
C13_ConsistentItemsGiveFullVerdict ==
    (pc = "returned" /\ path = "basic" /\ ItemsSumToSubtotal)
        => /\ data.validation.calc
           /\ data.validation.req
           /\ data.validation.q > 50

\* C13, amended: in the basic scoring data_quality_score is 0.4 if totals are
\* present + 0.3 if line items are present + 0.3 if calculation_check is
\* true, and lies in [0, 1]; line items that sum to a stated subtotal other
\* than zero give calculation_check = true and the score 1.0, and also
\* required_fields_present = true when the totals hold a non-zero
\* total_incl_vat or amount_due
C13_BasicScoreAndVerdict ==
    (pc = "returned" /\ path = "basic")
        => /\ data.validation.q =
                 (IF data.totals.obj THEN 40 ELSE 0)
                 + (IF data.items # << >> THEN 30 ELSE 0)
                 + (IF data.validation.calc THEN 30 ELSE 0)
           /\ data.validation.q \in 0..100
           /\ (ItemsSumToSubtotal /\ Truthy(data.totals.sub))
                 => (data.validation.calc /\ data.validation.q = 100)
           /\ (/\ ItemsSumToSubtotal /\ Truthy(data.totals.sub)
               /\ (Truthy(data.totals.incl) \/ Truthy(data.totals.due)))
                 => data.validation.req

\* the basic path scored line items that sum to the subtotal of totals that
\* hold an amount due
C13_Witness ==
    /\ pc = "returned" /\ path = "basic"
    /\ ItemsSumToSubtotal /\ Truthy(data.totals.sub)
    /\ ~Truthy(data.totals.incl) /\ Truthy(data.totals.due)
    /\ data.validation.req /\ data.validation.q = 100

-----------------------------------------------------------------------------
(* Determinism of a request *)

\* the days on which a request can run
RunDays == {today, today + 1}

\* the records the extraction of path p can return for text t and store st: the
\* lookups of the ML path return any of the rows of equal similarity, the LLM
\* path reads the day of the run
RunOutcomes(p, t, st) ==
    IF p = "basic" THEN {BasicData(t)}
    ELSE IF p = "ml"
    THEN {MLData(t, st, foundSupplier, foundCompany) :
             foundSupplier \in SupplierLookups(t, st),
             foundCompany \in CompanyLookups(t, st)}
    ELSE {IF t.malformed THEN FallbackData ELSE LLMData(t, st, day) : day \in RunDays}

\* C14: a second run of the request on the same text with the same reference
\* rows returns a record with the same invoice number, date, supplier,
\* company and amounts (generated numbers are compared without their
\* timestamp, which the model leaves out)
C14_SecondRunGivesSameRecord ==
    pc = "assembled" =>
        \A d \in RunOutcomes(path, text, store) : AssembleInvoice(d, dbData) = dto

-----------------------------------------------------------------------------
(* Properties of the assembled invoice number and dates *)

\* C15: the invoice number of the assembled record is the number of the
\* database path when it found one, else the number of the extracted record,
\* else a generated "INV-" number; it is never absent
C15_AssembledNumberByPriority ==
    pc = "assembled" =>
        /\ dto.number = (IF dbData.number # "None" THEN dbData.number
                         ELSE IF data.invoice.obj /\ data.invoice.number # "None"
                         THEN data.invoice.number
                         ELSE "INV-generated")
        /\ dto.number # "None"

\* C16: the invoice date of the assembled record is the extracted date when
\* there is one and the day of the run otherwise; it is never absent
C16_AssembledDateOrToday ==
    pc = "assembled" =>
        /\ dto.date = (IF dbData.date # 0 THEN dbData.date
                       ELSE IF data.invoice.obj /\ data.invoice.date # 0
                       THEN data.invoice.date
                       ELSE today)
        /\ dto.date # 0

\* the dates written in the text
WrittenDates == {text.dates[i].day : i \in 1..Len(text.dates)}

\* C17: when the text carries two or more dates, the record the ML or the LLM
\* path returns has the earliest as invoice date and the latest as due date;
\* a record with both dates has due_date >= invoice_date
C17_EarlierDateIsInvoiceDate ==
    (pc = "returned" /\ path \in {"ml", "llm"} /\ ~text.malformed)
        => /\ Len(text.dates) >= 2
                => /\ data.invoice.date = Least(WrittenDates)
                   /\ data.invoice.due = Greatest(WrittenDates)
           /\ (data.invoice.date # 0 /\ data.invoice.due # 0)
                => data.invoice.due >= data.invoice.date

-----------------------------------------------------------------------------
(* Properties of the goals of the assembled record *)

\* C18: every assembled record has exactly one goal, whose amount is the
\* including_taxes amount of the record and whose invoice_id is its id
C18_ExactlyOneGoal ==
    pc = "assembled" =>
        /\ Len(dto.goals) = 1
        /\ dto.goals[1].amount = dto.incl
        /\ dto.goals[1].invoice_id = dto.id

\* C18, amended: an assembled record has one goal when it has an
\* including_taxes amount and none otherwise; the goal carries that amount
\* and the id of the record
C18_OneGoalWhenAmount ==
    pc = "assembled" =>
        /\ Len(dto.goals) <= 1
        /\ Len(dto.goals) = 1 <=> Present(dto.incl)
        /\ \A i \in 1..Len(dto.goals) :
              /\ dto.goals[i].amount = dto.incl
              /\ dto.goals[i].invoice_id = dto.id
        /\ Present(dto.incl) => Truthy(dto.incl)

\* a record was assembled with its goal
C18_Witness ==
    /\ pc = "assembled"
    /\ Len(dto.goals) = 1
    /\ dto.goals[1].amount = dto.incl
    /\ Truthy(dto.incl)

-----------------------------------------------------------------------------
(* Persistence: InvoiceMLService and InvoiceService._insert_invoice_to_db *)

\* the rows of invoice i with n line items: the invoice, its goal, its lines
InvoiceRows(i, n) ==
    {[invoice |-> i, kind |-> "invoice", line |-> 0],
     [invoice |-> i, kind |-> "goal", line |-> 0]}
    \cup {[invoice |-> i, kind |-> "item", line |-> k] : k \in 1..n}

\* the arguments of a persistence call: whether invoice_data names a customer,
\* and the number of line items
PersistRequests == [customer : BOOLEAN, items : 0..MaxItems]

\* a variant in which the models accept the arguments and the handler raises
\* on the first line item, if there is one
FirstFailureAtLineItem(req) == IF req.items > 0 THEN "item" ELSE "none"

\* the step at which create_invoice_with_ml_enhancement raises: with a customer
\* name find_or_create_company reads Company.name, which the Company model does
\* not have (AttributeError); otherwise Invoice(...) is given due_date, which
\* is no column of the Invoice model (TypeError). Both precede self.db.add
FirstFailure(req) == IF req.customer THEN "company" ELSE "invoice"

\* the rows of invoice i the handler has added to the session when it raises
\* at `step`; it has no handler of its own and never rolls back
RowsBefore(i, step) ==
    IF step \in {"company", "invoice"} THEN {}
    ELSE IF step = "goal" THEN {[invoice |-> i, kind |-> "invoice", line |-> 0]}
    ELSE InvoiceRows(i, 0)

\* InvoiceMLService.create_invoice_with_ml_enhancement: self.db.commit() at the
\* end commits whatever the session holds
CreateInvoiceWithMLEnhancement ==
    /\ Len(attempts) < MaxInvoices
    /\ \E req \in PersistRequests :
          LET i    == Len(attempts) + 1
              step == FirstFailure(req)
          IN  /\ attempts' = Append(attempts, [op |-> "ml", customer |-> req.customer,
                                               items |-> req.items])
              /\ IF step = "none"
                 THEN /\ committed' = committed \cup pending \cup InvoiceRows(i, req.items)
                      /\ pending' = {}
                      /\ outcome' = "returned"
                 ELSE /\ pending' = pending \cup RowsBefore(i, step)
                      /\ committed' = committed
                      /\ outcome' = "raised"
    /\ UNCHANGED <<requestVars, routeVars, resolved>>
    /\ UNCHANGED scanVars

\* InvoiceService._insert_invoice_to_db: self.db is None (set in __init__ and
\* never assigned), so self.db.execute raises AttributeError, and so does
\* self.db.rollback() in the handler
InsertInvoiceToDb ==
    /\ Len(attempts) < MaxInvoices
    /\ \E n \in 0..MaxItems :
          attempts' = Append(attempts, [op |-> "insert", customer |-> FALSE, items |-> n])
    /\ outcome' = "raised"
    /\ UNCHANGED <<pending, committed, resolved, requestVars, routeVars>>
    /\ UNCHANGED scanVars

\* the candidate names given to a resolution operation (NoName: no name)
ResolveNames ==
    {NoName, <<"ACME">>, <<"Zog">>, <<"SITSE", "Services">>, <<"ACME", "ENERGIE">>}

\* the reference stores of the resolution operations: at most one supplier
\* and one company, a database that answers or not; two suppliers of equal
\* similarity to "ACME"; a supplier that holds "ACME ENERGIE" among other
\* words and one that has its two words in the other order
ResolveStores ==
    {st \in EntityStores : Len(st.suppliers) <= 1 /\ Len(st.companies) <= 1}
    \cup {[EmptyStore EXCEPT !.suppliers = s] :
             s \in {<< <<"ACME", "EST">>, <<"ACME", "SUD">> >>,
                    << <<"ACME", "ENERGIE", "SA", "SITSE", "Services">>,
                       <<"ENERGIE", "ACME">> >>}}

\* a variant in which the models have the column `name` the lookups filter on
NameLookupAnswers(model) == FALSE

\* find_or_create_company filters on Company.name and find_or_create_supplier
\* on Supplier.name: neither model has an attribute `name` (company_name,
\* social_reason), so building the filter raises AttributeError before any
\* statement is sent
NameLookupRaises(model) == TRUE

\* Column.ilike('%name%') on the rows of a table: the first row that holds the
\* candidate, 0 when there is none
FirstIlike(columns, name) ==
    LET rows == {i \in 1..Len(columns) : Contains(columns[i], name)}
    IN  IF rows = {} THEN 0 ELSE Least(rows)

\* InvoiceMLService.find_or_create_company: None without a name; else the
\* lookup by name, and _create_company (db.add, db.flush) when it finds nothing
FindOrCreateCompany ==
    /\ \E name \in ResolveNames :
          LET row == FirstIlike(CompanyNames(store), name)
          IN  IF name = NoName
              THEN /\ resolved' = [op |-> "find_or_create_company", name |-> name,
                                   found |-> NoName]
                   /\ outcome' = "returned"
                   /\ store' = store
              ELSE IF NameLookupRaises("Company")
              THEN /\ resolved' = [op |-> "find_or_create_company", name |-> name,
                                   found |-> NoName]
                   /\ outcome' = "raised"
                   /\ store' = store
              ELSE /\ resolved' = [op |-> "find_or_create_company", name |-> name,
                                   found |-> IF row # 0 THEN store.companies[row].name
                                             ELSE name]
                   /\ outcome' = "returned"
                   /\ store' = IF row # 0 THEN store
                               ELSE [store EXCEPT !.companies =
                                        Append(@, [erp |-> name, name |-> name])]
    /\ UNCHANGED <<text, today, path, pc, data, dbData, raised, dto>>
    /\ UNCHANGED <<attempts, pending, committed, routeVars>>
    /\ UNCHANGED scanVars

\* InvoiceMLService.find_or_create_supplier: None without a name; else the
\* lookup by name, and _create_supplier (db.add, db.flush) when it finds nothing
FindOrCreateSupplier ==
    /\ \E name \in ResolveNames :
          LET row == FirstIlike(store.suppliers, name)
          IN  IF name = NoName
              THEN /\ resolved' = [op |-> "find_or_create_supplier", name |-> name,
                                   found |-> NoName]
                   /\ outcome' = "returned"
                   /\ store' = store
              ELSE IF NameLookupRaises("Supplier")
              THEN /\ resolved' = [op |-> "find_or_create_supplier", name |-> name,
                                   found |-> NoName]
                   /\ outcome' = "raised"
                   /\ store' = store
              ELSE /\ resolved' = [op |-> "find_or_create_supplier", name |-> name,
                                   found |-> IF row # 0 THEN store.suppliers[row] ELSE name]
                   /\ outcome' = "returned"
                   /\ store' = IF row # 0 THEN store
                               ELSE [store EXCEPT !.suppliers = Append(@, name)]
    /\ UNCHANGED <<text, today, path, pc, data, dbData, raised, dto>>
    /\ UNCHANGED <<attempts, pending, committed, routeVars>>
    /\ UNCHANGED scanVars

\* _find_similar_supplier and _find_similar_company of the ML extractor: one
\* SELECT each
FindSimilar ==
    /\ \E name \in ResolveNames \ {NoName} :
          \/ \E found \in FindSimilarSupplier(name, store) :
                resolved' = [op |-> "find_similar_supplier", name |-> name, found |-> found]
          \/ \E found \in FindSimilarCompany(name, store) :
                resolved' = [op |-> "find_similar_company", name |-> name, found |-> found]
    /\ outcome' = "returned"
    /\ UNCHANGED <<requestVars, attempts, pending, committed, routeVars>>
    /\ UNCHANGED scanVars

\* the lookups of store names in the text: _find_company_in_text and
\* _find_supplier_in_text of the LLM extractor on the rows it loaded,
\* _extract_company_from_db and _extract_supplier_from_db of the database path
FindInText ==
    /\ \E words \in TextWords :
          \/ resolved' = [op |-> "find_company_in_text", name |-> words,
                          found |-> FindCompanyInText(words, LoadCompanies(store))]
          \/ resolved' = [op |-> "find_supplier_in_text", name |-> words,
                          found |-> FindSupplierInText([EmptyText EXCEPT !.words = words],
                                                       LoadSuppliers(store))]
          \/ resolved' = [op |-> "extract_company_from_db", name |-> words,
                          found |-> ExtractCompanyFromDb(words, store)]
          \/ resolved' = [op |-> "extract_supplier_from_db", name |-> words,
                          found |-> ExtractSupplierFromDb(words, store)]
    /\ outcome' = "returned"
    /\ UNCHANGED <<requestVars, attempts, pending, committed, routeVars>>
    /\ UNCHANGED scanVars

InitPersist ==
    /\ InitRequest
    /\ text = EmptyText
    /\ store = EmptyStore
    /\ InitPersistence
    /\ InitRoute
    /\ InitScan

NextPersist ==
    \/ CreateInvoiceWithMLEnhancement
    \/ InsertInvoiceToDb

SpecPersist == InitPersist /\ [][NextPersist]_vars

\* the committed rows of invoice i
CommittedRows(i) == {row \in committed : row.invoice = i}

InitResolve ==
    /\ InitRequest
    /\ text = EmptyText
    /\ store \in ResolveStores
    /\ InitPersistence
    /\ InitRoute
    /\ InitScan

NextResolve ==
    \/ FindOrCreateCompany
    \/ FindOrCreateSupplier
    \/ FindSimilar
    \/ FindInText

SpecResolve == InitResolve /\ [][NextResolve]_vars

ContainmentRows(columns, name) == {i \in 1..Len(columns) : Contains(columns[i], name)}

\* the first row of greatest similarity above the threshold, 0 when there is none
FirstMostSimilarRow(columns, name) ==
    LET rows == {i \in 1..Len(columns) : Similarity(columns[i], name) > SimilarityThreshold}
        best == {i \in rows : \A j \in rows :
                    Similarity(columns[j], name) <= Similarity(columns[i], name)}
    IN  IF best = {} THEN 0 ELSE Least(best)

\* C22: the similarity lookup of a supplier returns a row that holds the
\* candidate name when the store has one; otherwise the row of greatest
\* similarity above 0.3, the first in store order among equals; otherwise
\* nothing
C22_ContainmentBeforeSimilarity ==
    (resolved.op = "find_similar_supplier" /\ store.up) =>
        LET held  == ContainmentRows(store.suppliers, resolved.name)
            first == FirstMostSimilarRow(store.suppliers, resolved.name)
        IN  IF held # {} THEN \E i \in held : resolved.found = store.suppliers[i]
            ELSE IF first # 0 THEN resolved.found = store.suppliers[first]
            ELSE resolved.found = NoName

-----------------------------------------------------------------------------
(* The route: two requests on the module-level ml_extractor *)

\* the queries of extract_invoice_data_with_ml the database can reject
QueryFaults == {"supplier", "company", "save"}

\* a statement on the session succeeds unless the database rejects it or the
\* transaction of the session is already aborted
QueryOk(tx, rejected) == tx # "aborted" /\ ~rejected

\* the lookups catch the exception and return None without a rollback: a
\* statement that failed leaves the transaction aborted
TxAfterQuery(ok) == IF ok THEN "open" ELSE "aborted"

\* a variant of _save_ml_training_data whose handler does not roll back
TxAfterSaveWithoutRollback(tx, ok) == IF ok THEN "none" ELSE "aborted"

\* _save_ml_training_data: self.db.commit(), or self.db.rollback() in the
\* handler; either ends the transaction
TxAfterSave(tx, ok) == "none"

\* extract_invoice_data_with_ml on the session in state tx, the database
\* rejecting the queries f: the records it can return, whether the training
\* row was saved, and the state in which it leaves the session
MLRun(t, st, f, tx) ==
    LET base        == BasicData(t)
        askSupplier == base.supplier.obj /\ base.supplier.name # NoName
        okSupplier  == askSupplier /\ QueryOk(tx, "supplier" \in f)
        tx1         == IF askSupplier THEN TxAfterQuery(okSupplier) ELSE tx
        suppliers   == IF okSupplier THEN FindSimilarSupplier(base.supplier.name, st)
                       ELSE {NoName}
    IN  UNION {
          LET askCompany == /\ ~SupplierEnhancementRaises(base.supplier, fs)
                            /\ base.customer.obj /\ base.customer.name # NoName
              okCompany  == askCompany /\ QueryOk(tx1, "company" \in f)
              tx2        == IF askCompany THEN TxAfterQuery(okCompany) ELSE tx1
              companies  == IF okCompany THEN FindSimilarCompany(base.customer.name, st)
                            ELSE {NoName}
              okSave     == QueryOk(tx2, "save" \in f)
          IN  {[data |-> MLData(t, st, fs, fc), saved |-> okSave,
                tx |-> TxAfterSave(tx2, okSave)] : fc \in companies}
          : fs \in suppliers}

\* the texts of the requests: a supplier of the store, a company of the store
\* without a supplier name, an unknown supplier
RouteTexts ==
    {[EmptyText EXCEPT !.words = <<"ACME">>, !.supplierLine = <<"ACME">>],
     [EmptyText EXCEPT !.words = <<"SITSE">>],
     [EmptyText EXCEPT !.words = <<"Zog", "SA">>, !.supplierLine = <<"Zog", "SA">>]}

RouteStore ==
    [EmptyStore EXCEPT !.suppliers = << <<"ACME", "ENERGIE", "SA">> >>,
                       !.companies = <<Sitse>>]

\* the InvoiceDTO of the response for the record `d` of the ML extraction: the
\* InvoiceService and its SwissInvoiceExtractor are created for the request
Response(d, t, st) == AssembleInvoice(d, SwissData(t, st))

\* process_invoice up to `await file.read()` in _save_temp_file, the only
\* point at which the handler yields to another request: the temporary file
\* is created, with delete=False, before the content is read
SaveTempFile(r) ==
    /\ rpc[r] = "idle"
    /\ \E t \in RouteTexts : \E f \in SUBSET QueryFaults :
          /\ rtext' = [rtext EXCEPT ![r] = t]
          /\ faults' = [faults EXCEPT ![r] = f]
    /\ tempFiles' = tempFiles \cup {r}
    /\ rpc' = [rpc EXCEPT ![r] = "saving"]
    /\ UNCHANGED <<sessionTx, sessionUsers, result, requestVars, persistVars>>
    /\ UNCHANGED scanVars

\* the `finally` of process_invoice: the file is removed when temp_file_path
\* was assigned, that is when _save_temp_file returned
RemoveTempFile(files, r, tempFilePathSet) ==
    IF tempFilePathSet THEN files \ {r} ELSE files

\* the rest of _save_temp_file for a content above settings.max_file_size:
\* FileSizeError is raised and wrapped without closing or removing the file,
\* temp_file_path of process_invoice stays None and the request ends in error
UploadTooLarge(r) ==
    /\ tempFiles' = RemoveTempFile(tempFiles, r, FALSE)
    /\ rpc' = [rpc EXCEPT ![r] = "rejected"]
    /\ UNCHANGED <<sessionTx, sessionUsers, result, store>>

\* an error of the image or OCR step after the file was written: the request
\* ends in error and the `finally` removes the file
ProcessingFails(r) ==
    /\ tempFiles' = RemoveTempFile(tempFiles, r, TRUE)
    /\ rpc' = [rpc EXCEPT ![r] = "failed"]
    /\ UNCHANGED <<sessionTx, sessionUsers, result, store>>

\* process_invoice from the end of the upload to the response: the extraction
\* on the module-level ml_extractor and the assembly, without any await
ProcessInvoice(r) ==
    /\ rpc[r] = "saving"
    /\ \/ UploadTooLarge(r)
       \/ ProcessingFails(r)
       \/ /\ \E run \in MLRun(rtext[r], store, faults[r], sessionTx) :
                /\ result' = [result EXCEPT ![r] =
                                  Response(run.data, rtext[r], store)]
                /\ sessionTx' = run.tx
                /\ store' = IF run.saved THEN SaveMLTrainingData(store) ELSE store
          /\ sessionUsers' = sessionUsers \cup {r}
          /\ tempFiles' = RemoveTempFile(tempFiles, r, TRUE)
          /\ rpc' = [rpc EXCEPT ![r] = "done"]
    /\ UNCHANGED <<rtext, faults, text, today, path, pc, data, dbData, raised, dto,
                   persistVars>>
    /\ UNCHANGED scanVars

InitTwoRequests ==
    /\ InitRequest
    /\ text = EmptyText
    /\ store = RouteStore
    /\ InitPersistence
    /\ InitRoute
    /\ InitScan

NextTwoRequests ==
    \E r \in Requests :
        \/ SaveTempFile(r)
        \/ ProcessInvoice(r)

SpecTwoRequests == InitTwoRequests /\ [][NextTwoRequests]_vars

\* the responses the request r can get when it is the only request
ResponsesAlone(r) ==
    {Response(run.data, rtext[r], store) :
        run \in MLRun(rtext[r], store, faults[r], "none")}

-----------------------------------------------------------------------------
(* Properties of the resolved company *)

\* the companies of the store that some resolver matches with the request: by
\* their ERP code or name in the text, or by the name of the customer line
MatchingCompanies(t, st) ==
    {i \in 1..Len(st.companies) :
        \/ SwissCompanyMatches(st.companies[i], t.words)
        \/ LLMCompanyMatches(st.companies[i], t.words)
        \/ SimilarRow(st.companies[i].name, t.customerLine)}

\* C23: the company of the assembled record is a matching company of the
\* store when the store has one, and the first company of the store when it
\* has none
C23_UnmatchedCompanyIsFirstRecord ==
    (pc = "assembled" /\ dbData.obj /\ store.up /\ store.companies # << >>) =>
        IF MatchingCompanies(text, store) # {}
        THEN \E i \in MatchingCompanies(text, store) : dto.company = store.companies[i].erp
        ELSE dto.company = store.companies[1].erp

-----------------------------------------------------------------------------
(* DataExtractor: the section scans of the supplier and of the customer *)

(* A line is the sequence of the pieces of text it is made of: a line of the   *)
(* raw text is one piece, and the one line _clean_text leaves holds the pieces *)
(* of all the lines, separated by single spaces. The empty sequence is a       *)
(* blank line.                                                                 *)

\* largest number of lines of a raw text
MaxLines == 4

\* the pieces the raw texts are made of
Pieces ==
    {"ENTREPRISE ABC", "FACTURE F2025-001", "Client: Société XYZ", "TOTAL TTC 600.00",
     "12345678", "info@abc.fr", "Contact: Paul", "19/08/2025", "ABC"}

\* len(piece)
PieceLen(p) ==
    CASE p = "ENTREPRISE ABC" -> 14
      [] p = "FACTURE F2025-001" -> 17
      [] p = "Client: Société XYZ" -> 19
      [] p = "TOTAL TTC 600.00" -> 16
      [] p = "12345678" -> 8
      [] p = "info@abc.fr" -> 11
      [] p = "Contact: Paul" -> 13
      [] p = "19/08/2025" -> 10
      [] OTHER -> 3

\* keyword in piece.upper()
PieceHas(p, keyword) ==
    \/ p = "FACTURE F2025-001" /\ keyword = "FACTURE"
    \/ p = "Client: Société XYZ" /\ keyword = "CLIENT"
    \/ p = "TOTAL TTC 600.00" /\ keyword = "TOTAL"

\* re.search(r'\d{2}[/\-\.]\d{2}', piece): "19/08" and "00.00"
PieceHasDate(p) == p \in {"19/08/2025", "TOTAL TTC 600.00"}

RECURSIVE LineLen(_)
\* len(line.strip())
LineLen(line) ==
    IF line = << >> THEN 0
    ELSE IF Len(line) = 1 THEN PieceLen(line[1])
    ELSE PieceLen(Head(line)) + 1 + LineLen(Tail(line))

\* any(keyword in line_clean for keyword in keywords)
LineHasAny(line, keywords) ==
    \E i \in 1..Len(line) : \E k \in keywords : PieceHas(line[i], k)

LineHasDate(line) == \E i \in 1..Len(line) : PieceHasDate(line[i])

\* re.search(r'^\d+$', line)
LineIsDigits(line) == line = <<"12345678">>

\* '@' in line
LineHasAt(line) == \E i \in 1..Len(line) : line[i] = "info@abc.fr"

\* line.upper().startswith('CONTACT'); no piece starts with R.C.S
LineStartsWithContact(line) == line # << >> /\ line[1] = "Contact: Paul"

RECURSIVE Flatten(_)
Flatten(lines) == IF lines = << >> THEN << >> ELSE Head(lines) \o Flatten(Tail(lines))

\* _clean_text: every run of white space, line ends included, becomes one
\* space; the result is one line
CleanText(lines) == <<Flatten(lines)>>

\* the keywords that end the supplier section
SupplierStopKeywords == {"FACTURER", "CLIENT", "DESTINATAIRE", "FACTURE"}

\* the keywords that open the customer section
CustomerKeywords == {"FACTURER À", "FACTURER A", "CLIENT", "DESTINATAIRE"}

\* the keywords that end the customer section
CustomerStopKeywords == {"DESCRIPTION", "PRESTATION", "TOTAL", "MONTANT"}

\* the number of lines of a section in which the name is looked for
SupplierNameLines == 5
CustomerNameLines == 3

RECURSIVE SupplierSection(_)
\* _extract_supplier_info, the loop over the lines
SupplierSection(lines) ==
    IF lines = << >> \/ LineHasAny(Head(lines), SupplierStopKeywords) THEN << >>
    ELSE (IF LineLen(Head(lines)) > 2 THEN <<Head(lines)>> ELSE << >>)
         \o SupplierSection(Tail(lines))

\* the first line of a sequence that is one of the eligible lines, << >>
\* when there is none
FirstLine(section, eligible) ==
    LET ok == {i \in 1..Len(section) : section[i] \in eligible}
    IN  IF ok = {} THEN << >> ELSE section[Least(ok)]

\* the lines of a sequence
LinesOf(section) == {section[i] : i \in 1..Len(section)}

\* _extract_supplier_info, the name among the first lines of the section
SupplierName(section) ==
    LET Ok(line) == /\ LineLen(line) > 3
                    /\ ~LineHasDate(line)
                    /\ ~LineIsDigits(line)
                    /\ ~LineHasAt(line)
    IN  FirstLine(SubSeq(section, 1, IF Len(section) < SupplierNameLines THEN Len(section)
                                     ELSE SupplierNameLines),
                  {line \in LinesOf(section) : Ok(line)})

RECURSIVE CustomerSectionReopening(_, _)
\* a variant of the loop that leaves the section at a terminating keyword
\* and goes on, so that a later customer keyword opens it again
CustomerSectionReopening(lines, inCustomerSection) ==
    IF lines = << >> THEN << >>
    ELSE IF LineHasAny(Head(lines), CustomerKeywords)
    THEN CustomerSectionReopening(Tail(lines), TRUE)
    ELSE IF inCustomerSection /\ LineHasAny(Head(lines), CustomerStopKeywords)
    THEN CustomerSectionReopening(Tail(lines), FALSE)
    ELSE (IF inCustomerSection /\ Head(lines) # << >> THEN <<Head(lines)>> ELSE << >>)
         \o CustomerSectionReopening(Tail(lines), inCustomerSection)

RECURSIVE CustomerSection(_, _)
\* _extract_customer_info, the loop over the lines
CustomerSection(lines, inCustomerSection) ==
    IF lines = << >> THEN << >>
    ELSE IF LineHasAny(Head(lines), CustomerKeywords) THEN CustomerSection(Tail(lines), TRUE)
    ELSE IF inCustomerSection /\ LineHasAny(Head(lines), CustomerStopKeywords) THEN << >>
    ELSE (IF inCustomerSection /\ Head(lines) # << >> THEN <<Head(lines)>> ELSE << >>)
         \o CustomerSection(Tail(lines), inCustomerSection)

\* _extract_customer_info, the name among the first lines of the section
CustomerName(section) ==
    LET Ok(line) == /\ LineLen(line) > 3
                    /\ ~LineHasDate(line)
                    /\ ~LineStartsWithContact(line)
    IN  FirstLine(SubSeq(section, 1, IF Len(section) < CustomerNameLines THEN Len(section)
                                     ELSE CustomerNameLines),
                  {line \in LinesOf(section) : Ok(line)})

\* the two scans on the lines of a text
ScanOf(op, lines) ==
    [op              |-> op,
     supplierSection |-> SupplierSection(lines),
     supplier        |-> SupplierName(SupplierSection(lines)),
     customerSection |-> CustomerSection(lines, FALSE),
     customer        |-> CustomerName(CustomerSection(lines, FALSE))]

\* the raw texts: up to MaxLines lines of one piece each
RawTexts == UNION {[1..k -> {<<p>> : p \in Pieces}] : k \in 0..MaxLines}

\* DataExtractor._extract_supplier_info and _extract_customer_info called on
\* the raw text
ExtractSectionsOfRawText ==
    /\ scan.op = "None"
    /\ scan' = ScanOf("sections", doc)
    /\ UNCHANGED <<doc, requestVars, persistVars, routeVars>>

\* DataExtractor.extract_invoice_data, supplier and customer: the scans run on
\* the text _clean_text returns
ExtractInvoiceDataNames ==
    /\ scan.op = "None"
    /\ scan' = ScanOf("extract_invoice_data", CleanText(doc))
    /\ UNCHANGED <<doc, requestVars, persistVars, routeVars>>

InitSections ==
    /\ InitRequest
    /\ text = EmptyText
    /\ store = EmptyStore
    /\ InitPersistence
    /\ InitRoute
    /\ doc \in RawTexts
    /\ scan = NoScan

NextSections ==
    \/ ExtractSectionsOfRawText
    \/ ExtractInvoiceDataNames

SpecSections == InitSections /\ [][NextSections]_vars

\* the lines before the first line that holds a customer keyword
LinesBeforeCustomerKeyword(lines) ==
    LET at == {i \in 1..Len(lines) : LineHasAny(lines[i], CustomerKeywords)}
    IN  IF at = {} THEN lines ELSE SubSeq(lines, 1, Least(at) - 1)

\* the lines after the first line that holds a customer keyword
LinesAfterCustomerKeyword(lines) ==
    LET at == {i \in 1..Len(lines) : LineHasAny(lines[i], CustomerKeywords)}
    IN  IF at = {} THEN << >> ELSE SubSeq(lines, Least(at) + 1, Len(lines))

\* a line longer than 3 characters that is no date, no digit string and
\* holds no '@'
EligibleName(line) ==
    /\ LineLen(line) > 3
    /\ ~LineHasDate(line)
    /\ ~LineIsDigits(line)
    /\ ~LineHasAt(line)

\* the first eligible line of a sequence of lines, << >> when there is none
FirstEligible(section) ==
    FirstLine(section, {line \in LinesOf(section) : EligibleName(line)})

\* C24: extract_invoice_data returns as supplier.name the first eligible line
\* before the first customer keyword, and as customer.name the first
\* eligible line after it
C24_NamesFromSections ==
    scan.op = "extract_invoice_data" =>
        /\ scan.supplier = FirstEligible(LinesBeforeCustomerKeyword(doc))
        /\ scan.customer = FirstEligible(LinesAfterCustomerKeyword(doc))

-----------------------------------------------------------------------------
(* Properties of the basic extraction *)

\* the dates the text writes as dd/mm/yyyy, in the order of the text
WrittenDmyDates(t) ==
    LET at == {i \in 1..Len(t.dates) : t.dates[i].fmt = "dmy"}
    IN  [k \in 1..Cardinality(at) |->
            t.dates[CHOOSE i \in at : Cardinality({j \in at : j <= i}) = k].day]

\* C25: when the text writes an invoice date as dd/mm/yyyy, the record of the
\* basic extraction has that date as invoice.date
C25_BasicDateExtracted ==
    (path = "basic" /\ pc = "returned" /\ WrittenDmyDates(text) # << >>) =>
        /\ data.invoice.obj
        /\ data.invoice.date = WrittenDmyDates(text)[1]

\* the lines a scan was given: those of the raw text, or the one line of the
\* cleaned text
ScannedLines == IF scan.op = "sections" THEN doc ELSE CleanText(doc)

\* the index of the first line that holds a customer keyword, 0 when none does
FirstCustomerKeyword(lines) ==
    LET at == {i \in 1..Len(lines) : LineHasAny(lines[i], CustomerKeywords)}
    IN  IF at = {} THEN 0 ELSE Least(at)

\* the index of the first line after line k that holds a terminating keyword
\* and no customer keyword, Len(lines) + 1 when there is none
FirstStopAfter(lines, k) ==
    LET at == {i \in (k + 1)..Len(lines) :
                  /\ LineHasAny(lines[i], CustomerStopKeywords)
                  /\ ~LineHasAny(lines[i], CustomerKeywords)}
    IN  IF at = {} THEN Len(lines) + 1 ELSE Least(at)

C28_SameNameHeuristic ==
    scan.op = "sections" =>
        /\ scan.supplier = FirstEligible(scan.supplierSection)
        /\ scan.customer = FirstEligible(scan.customerSection)
        /\ CustomerName(scan.supplierSection) = scan.supplier
        /\ SupplierName(scan.customerSection) = scan.customer

-----------------------------------------------------------------------------
(* DataExtractor: the totals, line by line *)

(* A piece of a totals text is a label followed by an amount; a line is a      *)
(* sequence of pieces, as in the section scans.                                *)

\* largest number of lines of a totals text
MaxTotalLines == 3

\* the labels of the lines; "Net à payer" holds none of the keywords of the
\* loop (TOTAL, TVA, SOUS-TOTAL)
TotalLabels == {"Sous-total", "TOTAL HT", "TVA 20%", "Total TTC", "Total", "Net à payer"}

TotalPieces == [label : TotalLabels, amt : {Cents(2), Cents(4)}]

\* re.search(pattern, "<label>: <amount>", re.IGNORECASE) for the pattern of a
\* field: (?:TOTAL|Total)[\s:]*(\d+...) finds "total: <amount>" in
\* "Sous-total: <amount>" as well
PatternMatches(field, label) ==
    \/ field = "subtotal_excl_vat" /\ label \in {"Sous-total", "TOTAL HT"}
    \/ field = "total_vat" /\ label = "TVA 20%"
    \/ field = "total_incl_vat" /\ label = "Total TTC"
    \/ field = "amount_due" /\ label \in {"Total", "Sous-total"}

\* the amount the pattern of a field captures in a line: that of its
\* leftmost match, NoAmt when the line holds none
LineCapture(line, field) ==
    LET at == {i \in 1..Len(line) : PatternMatches(field, line[i].label)}
    IN  IF at = {} THEN NoAmt ELSE line[Least(at)].amt

\* the amount of a field after the loop over the lines: `field not in
\* totals_info` keeps that of the first line in which the pattern matches
FirstCapture(lines, field) ==
    LET at == {i \in 1..Len(lines) : Present(LineCapture(lines[i], field))}
    IN  IF at = {} THEN NoAmt ELSE LineCapture(lines[Least(at)], field)

\* _extract_totals on the lines of a text
ExtractTotalsOfLines(lines) ==
    ExtractTotals([EmptyText EXCEPT !.sousTotal = FirstCapture(lines, "subtotal_excl_vat"),
                                    !.tva = FirstCapture(lines, "total_vat"),
                                    !.ttc = FirstCapture(lines, "total_incl_vat"),
                                    !.total = FirstCapture(lines, "amount_due")])

TotalTexts == UNION {[1..k -> {<<p>> : p \in TotalPieces}] : k \in 0..MaxTotalLines}

\* DataExtractor._extract_totals called on the raw text
ExtractTotalsOfRawText ==
    /\ scan.op = "None"
    /\ scan' = [op |-> "extract_totals", totals |-> ExtractTotalsOfLines(doc)]
    /\ UNCHANGED <<doc, requestVars, persistVars, routeVars>>

\* DataExtractor.extract_invoice_data, totals: _extract_totals on the text
\* _clean_text returns
ExtractInvoiceDataTotals ==
    /\ scan.op = "None"
    /\ scan' = [op |-> "extract_invoice_data", totals |-> ExtractTotalsOfLines(CleanText(doc))]
    /\ UNCHANGED <<doc, requestVars, persistVars, routeVars>>

InitTotals ==
    /\ InitRequest
    /\ text = EmptyText
    /\ store = EmptyStore
    /\ InitPersistence
    /\ InitRoute
    /\ doc \in TotalTexts
    /\ scan = NoScan

NextTotals ==
    \/ ExtractTotalsOfRawText
    \/ ExtractInvoiceDataTotals

SpecTotals == InitTotals /\ [][NextTotals]_vars

\* the amount of the first line of the text whose label is one of `labels`
FirstLabelled(lines, labels) ==
    LET at == {i \in 1..Len(lines) : lines[i][1].label \in labels}
    IN  IF at = {} THEN NoAmt ELSE lines[Least(at)][1].amt

\* C26: every field of the totals has the amount of the first line of its
\* kind, and amount_due has the TTC total when the text has a TTC line and no
\* amount-due line
C26_FirstMatchWinsAndDueDefaults ==
    scan.op \in {"extract_totals", "extract_invoice_data"} =>
        /\ scan.totals.sub = FirstLabelled(doc, {"Sous-total", "TOTAL HT"})
        /\ scan.totals.vat = FirstLabelled(doc, {"TVA 20%"})
        /\ scan.totals.incl = FirstLabelled(doc, {"Total TTC"})
        /\ scan.totals.due = IF Present(FirstLabelled(doc, {"Total"}))
                             THEN FirstLabelled(doc, {"Total"})
                             ELSE FirstLabelled(doc, {"Total TTC"})

-----------------------------------------------------------------------------
(* DataExtractor._extract_with_patterns *)

\* largest number of lines of a text given to the pattern extraction
MaxFieldLines == 3

\* self.patterns: the names of the patterns of every field type, in the order
\* in which they are declared
Patterns ==
    [invoice_number |-> <<"facture_num", "facture_simple">>,
     date           |-> <<"date_fr", "date_iso">>,
     amount         |-> <<"montant_euro", "montant_decimal">>,
     siret          |-> <<"siret_pattern">>,
     vat_number     |-> <<"tva_fr">>]

\* the field types a caller can ask for: those of self.patterns and one that
\* is not declared
FieldTypes == DOMAIN Patterns \cup {"iban"}

FieldPieces ==
    {"FACTURE F2025-001", "FA-20250042", "15/01/2024", "2024-01-15", "600.00 €", "500,00",
     "SIRET: 12345678901234", "SIREN 123456789", "SIRET: 123456789012345", "SIRET: 123",
     "TVA: FR12345678901"}

\* re.search(pattern, piece, re.IGNORECASE): match.group(1).strip(), "None"
\* when the pattern does not match
PieceCapture(pattern, p) ==
    CASE pattern = "facture_num" /\ p = "FACTURE F2025-001" -> "F2025-001"
      [] pattern = "facture_simple" /\ p = "FACTURE F2025-001" -> "2025"
      [] pattern = "facture_simple" /\ p = "FA-20250042" -> "20250042"
      [] pattern = "facture_simple" /\ p = "TVA: FR12345678901" -> "12345678901"
      [] pattern = "date_fr" /\ p = "15/01/2024" -> "15/01/2024"
      [] pattern = "date_fr" /\ p = "2024-01-15" -> "24-01-15"
      [] pattern = "date_iso" /\ p = "2024-01-15" -> "2024-01-15"
      [] pattern = "montant_euro" /\ p = "600.00 €" -> "600.00"
      [] pattern = "montant_decimal" /\ p = "600.00 €" -> "600.00"
      [] pattern = "montant_decimal" /\ p = "500,00" -> "500,00"
      [] pattern = "siret_pattern" /\ p = "SIRET: 12345678901234" -> "12345678901234"
      [] pattern = "siret_pattern" /\ p = "SIREN 123456789" -> "123456789"
      [] pattern = "siret_pattern" /\ p = "SIRET: 123456789012345" -> "12345678901234"
      [] pattern = "tva_fr" /\ p = "TVA: FR12345678901" -> "FR12345678901"
      [] OTHER -> "None"

\* re.search(pattern, text): the leftmost match of the pattern in the text
TextCapture(pattern, pieces) ==
    LET at == {i \in 1..Len(pieces) : PieceCapture(pattern, pieces[i]) # "None"}
    IN  IF at = {} THEN "None" ELSE PieceCapture(pattern, pieces[Least(at)])

\* a variant that returns the capture of the last pattern that matches
ExtractWithPatternsLastDeclared(pieces, fieldType) ==
    IF fieldType \notin DOMAIN Patterns THEN "None"
    ELSE LET ps == Patterns[fieldType]
             ok == {k \in 1..Len(ps) : TextCapture(ps[k], pieces) # "None"}
         IN  IF ok = {} THEN "None"
             ELSE TextCapture(ps[CHOOSE k \in ok : \A j \in ok : j <= k], pieces)

\* _extract_with_patterns: None for a field type that is not declared; else
\* the capture of the first pattern, in the order of the list, that matches
ExtractWithPatterns(pieces, fieldType) ==
    IF fieldType \notin DOMAIN Patterns THEN "None"
    ELSE LET ps == Patterns[fieldType]
             ok == {k \in 1..Len(ps) : TextCapture(ps[k], pieces) # "None"}
         IN  IF ok = {} THEN "None" ELSE TextCapture(ps[Least(ok)], pieces)

FieldTexts == UNION {[1..k -> {<<p>> : p \in FieldPieces}] : k \in 0..MaxFieldLines}

\* a call of DataExtractor._extract_with_patterns on a text: re.search on a
\* string and a pattern that compiles raises nothing
ExtractWithPatternsCall ==
    /\ \E fieldType \in FieldTypes :
          scan' = [op |-> "extract_with_patterns", field |-> fieldType,
                   value |-> ExtractWithPatterns(Flatten(doc), fieldType),
                   outcome |-> "returned"]
    /\ UNCHANGED <<doc, requestVars, persistVars, routeVars>>

InitPatterns ==
    /\ InitRequest
    /\ text = EmptyText
    /\ store = EmptyStore
    /\ InitPersistence
    /\ InitRoute
    /\ doc \in FieldTexts
    /\ scan = NoScan

NextPatterns == ExtractWithPatternsCall

SpecPatterns == InitPatterns /\ [][NextPatterns]_vars

\* the number of digits of a capture made of digits only, 0 for the others
DigitRun(capture) ==
    CASE capture = "12345678901234" -> 14
      [] capture = "123456789" -> 9
      [] capture = "12345678901" -> 11
      [] capture = "20250042" -> 8
      [] capture = "2025" -> 4
      [] OTHER -> 0

\* the patterns of a field type that match somewhere in the text
MatchingPatterns(fieldType, pieces) ==
    {k \in 1..Len(Patterns[fieldType]) :
        \E i \in 1..Len(pieces) : PieceCapture(Patterns[fieldType][k], pieces[i]) # "None"}

\* C29: a call of _extract_with_patterns returns (it does not raise); its
\* value is the capture of the earliest-declared pattern of the field type
\* that matches the text, and no value when none matches or when the field
\* type is not declared; a value of the siret field is a run of 9 to 14 digits
C29_EarliestPatternOrNothing ==
    scan.op = "extract_with_patterns" =>
        /\ scan.outcome = "returned"
        /\ IF scan.field \notin DOMAIN Patterns THEN scan.value = "None"
           ELSE IF MatchingPatterns(scan.field, Flatten(doc)) = {} THEN scan.value = "None"
           ELSE /\ scan.value # "None"
                /\ scan.value = TextCapture(
                       Patterns[scan.field][Least(MatchingPatterns(scan.field, Flatten(doc)))],
                       Flatten(doc))
        /\ (scan.field = "siret" /\ scan.value # "None") => DigitRun(scan.value) \in 9..14

\* two patterns of the field type match the text with different captures, and
\* the call returned the capture of the first
C29_Witness ==
    /\ scan.op = "extract_with_patterns"
    /\ scan.field = "invoice_number"
    /\ Cardinality(MatchingPatterns(scan.field, Flatten(doc))) = 2
    /\ scan.value = "F2025-001"

-----------------------------------------------------------------------------
(* Properties of the temporary files of the uploads *)

\* C30: the temporary file created for an upload is deleted by the time the
\* request finishes, whether it succeeds, fails after the upload or is
\* rejected as too large after the file was created
C30_TempFilesDeleted ==
    \A r \in Requests : rpc[r] \in {"done", "failed", "rejected"} => r \notin tempFiles

====
